---- MODULE Spec2Model ----
(***************************************************************************)
(* Model of openapi-integrator-mcp: the tool router (handleToolCall), the  *)
(* SiliconFlow video poll loop (handleSiliconFlowVideoGeneration / poll),  *)
(* the notification helpers and the image paths.                           *)
(*                                                                         *)
(* Strings on which the code does substring tests (model names) are kept   *)
(* as sequences of characters so that String.prototype.includes is a real  *)
(* computation.  Times are in milliseconds, as in the code.                *)
(***************************************************************************)
EXTENDS Integers, Sequences, FiniteSets, TLC

VARIABLES config, now, call, polls, bgTasks, lastFanout

vars == <<config, now, call, polls, bgTasks, lastFanout>>

-----------------------------------------------------------------------------
(* Bounds of the model *)

MaxTasks == 1      \* poll loops, and background image tasks, started in one run
MaxTicks == 3      \* short clock steps (of one poll interval) per epoch
MaxItems == 2      \* items in one image-batch response

-----------------------------------------------------------------------------
(* Program constants *)

pollInterval == 10000
maxTimeout == 24 * 60 * 60 * 1000

-----------------------------------------------------------------------------
(* Model names, as character sequences *)

T2V14B == <<"W", "a", "n", "-", "A", "I", "/", "W", "a", "n", "2", ".", "1", "-", "T", "2", "V", "-", "1", "4", "B">>
T2V14BTurbo == <<"W", "a", "n", "-", "A", "I", "/", "W", "a", "n", "2", ".", "1", "-", "T", "2", "V", "-", "1", "4", "B", "-", "T", "u", "r", "b", "o">>
I2V720P == <<"W", "a", "n", "-", "A", "I", "/", "W", "a", "n", "2", ".", "1", "-", "I", "2", "V", "-", "1", "4", "B", "-", "7", "2", "0", "P">>
I2V720PTurbo == <<"W", "a", "n", "-", "A", "I", "/", "W", "a", "n", "2", ".", "1", "-", "I", "2", "V", "-", "1", "4", "B", "-", "7", "2", "0", "P", "-", "T", "u", "r", "b", "o">>
I2VUnsupported == <<"W", "a", "n", "-", "A", "I", "/", "W", "a", "n", "2", ".", "1", "-", "I", "2", "V", "-", "1", "4", "B">>
DallE3 == <<"d", "a", "l", "l", "-", "e", "-", "3">>
GptImage1 == <<"g", "p", "t", "-", "i", "m", "a", "g", "e", "-", "1">>
DallE2 == <<"d", "a", "l", "l", "-", "e", "-", "2">>
AzureDallE3 == <<"a", "z", "u", "r", "e", "/", "d", "a", "l", "l", "-", "e", "-", "3", "-", "h", "d">>
FluxSchnell == <<"f", "l", "u", "x", "-", "s", "c", "h", "n", "e", "l", "l">>
I2VTag == <<"I", "2", "V">>
NoModel == <<>>     \* args.model undefined or "" (both falsy)

\* String.prototype.includes
includes(s, sub) ==
    \E i \in 1..(Len(s) - Len(sub) + 1) : SubSeq(s, i, i + Len(sub) - 1) = sub

supportedVideoModels == {T2V14B, T2V14BTurbo, I2V720P, I2V720PTurbo}

-----------------------------------------------------------------------------
(* Loosely-typed argument values: what the handler's truthiness and typeof *)
(* tests can distinguish.                                                  *)

ArgVals == {"undefined", "empty", "string", "number"}
ImageArgVals == ArgVals \cup {"url"}      \* "url": a string that is an http(s) URL
Truthy(v) == v \in {"string", "url", "number"}
IsString(v) == v \in {"empty", "string", "url"}

\* isValidHttpUrl
isValidHttpUrl(v) == v = "url"

NullArgs == [isObject |-> FALSE, prompt |-> "undefined", image_size |-> "undefined",
             model |-> NoModel, image |-> "undefined"]

VideoArgs ==
    {NullArgs} \cup
    [isObject : {TRUE}, prompt : ArgVals, image_size : {"undefined", "number", "string"},
     model : {NoModel, T2V14B, I2V720P, I2VUnsupported},
     image : {"undefined", "number", "url"}]

\* the calls made while poll loops are being observed
PollVideoArgs ==
    {NullArgs} \cup
    [isObject : {TRUE}, prompt : {"string"}, image_size : {"string"},
     model : {NoModel}, image : {"undefined"}]

-----------------------------------------------------------------------------
(* Configuration: every optional setting is either set (TRUE) or absent.   *)

MessageTypes == {"", "private", "group", "channel"}

\* the object spread {...a, ...b}: a new object, the later part wins
spread(a, b) ==
    [k \in DOMAIN a \cup DOMAIN b |-> IF k \in DOMAIN b THEN b[k] ELSE a[k]]

\* delete o.k for every k of keys
deleteKeys(o, keys) == [k \in DOMAIN o \ keys |-> o[k]]

baseDefaultConfig == [width |-> "1024", height |-> "768", steps |-> "1", n |-> "1"]

AllConfigs ==
    {c \in [onebotHttpUrl : BOOLEAN, onebotMessageType : MessageTypes, onebotTargetId : BOOLEAN,
            telegramBotToken : BOOLEAN, telegramChatId : BOOLEAN,
            cfImgbedUploadUrl : BOOLEAN, cfImgbedApiKey : BOOLEAN,
            siliconflowApiKey : BOOLEAN,
            siliconflowVideoModel : {T2V14B},
            defaultImageModel : {DallE3, FluxSchnell},
            defaultEditImageModel : {GptImage1, DallE2},
            defaultImageConfig : {spread(baseDefaultConfig, [model |-> m]) :
                                     m \in {DallE3, FluxSchnell}}] :
        c.defaultImageConfig.model = c.defaultImageModel}

DefaultModels(c) == c.defaultImageModel = DallE3 /\ c.defaultEditImageModel = GptImage1

\* configurations under which the tool router is observed
CallConfigs ==
    {c \in AllConfigs : ~c.cfImgbedUploadUrl /\ ~c.cfImgbedApiKey /\ DefaultModels(c)}

\* configurations under which the notification functions are observed
NotifyConfigs == {c \in AllConfigs : DefaultModels(c)}

\* configurations under which the image tools are observed
ImageConfigs ==
    {c \in AllConfigs :
        /\ ~c.onebotHttpUrl /\ ~c.onebotTargetId /\ c.onebotMessageType = ""
        /\ c.telegramBotToken = c.telegramChatId
        /\ (c.cfImgbedApiKey => c.cfImgbedUploadUrl)
        /\ ~c.siliconflowApiKey
        /\ (c.defaultImageModel = DallE3 <=> c.defaultEditImageModel = GptImage1)}

\* configurations under which the background tasks are observed
PollConfigs ==
    {c \in AllConfigs :
        /\ c.onebotHttpUrl = c.onebotTargetId
        /\ c.onebotMessageType = (IF c.onebotHttpUrl THEN "private" ELSE "")
        /\ (c.onebotHttpUrl => ~c.telegramBotToken)
        /\ c.telegramBotToken = c.telegramChatId
        /\ c.cfImgbedApiKey = c.cfImgbedUploadUrl
        /\ c.siliconflowApiKey
        /\ DefaultModels(c)}

-----------------------------------------------------------------------------
(* Notification helpers *)

NotCalled == [attempts |-> 0, outcome |-> "notCalled", threw |-> FALSE]

sendOneBotNotification_rethrow(cfg, net) ==
    IF ~cfg.onebotHttpUrl \/ cfg.onebotMessageType = "" \/ ~cfg.onebotTargetId
    THEN [attempts |-> 0, outcome |-> "skipped", threw |-> FALSE]
    ELSE IF cfg.onebotMessageType # "private" /\ cfg.onebotMessageType # "group"
    THEN [attempts |-> 0, outcome |-> "invalidType", threw |-> FALSE]
    ELSE IF net
    THEN [attempts |-> 1, outcome |-> "sent", threw |-> FALSE]
    ELSE [attempts |-> 1, outcome |-> "failed", threw |-> TRUE]

\* net: whether the HTTP POST to the OneBot endpoint succeeds
sendOneBotNotification(cfg, net) ==
    IF ~cfg.onebotHttpUrl \/ cfg.onebotMessageType = "" \/ ~cfg.onebotTargetId
    THEN [attempts |-> 0, outcome |-> "skipped", threw |-> FALSE]
    ELSE IF cfg.onebotMessageType # "private" /\ cfg.onebotMessageType # "group"
    THEN [attempts |-> 0, outcome |-> "invalidType", threw |-> FALSE]
    ELSE IF net
    THEN [attempts |-> 1, outcome |-> "sent", threw |-> FALSE]
    ELSE [attempts |-> 1, outcome |-> "failed", threw |-> FALSE]

sendTelegramNotification_rethrow(cfg, net) ==
    IF ~cfg.telegramBotToken \/ ~cfg.telegramChatId
    THEN [attempts |-> 0, outcome |-> "skipped", threw |-> FALSE]
    ELSE IF net
    THEN [attempts |-> 1, outcome |-> "sent", threw |-> FALSE]
    ELSE [attempts |-> 1, outcome |-> "failed", threw |-> TRUE]

\* net: whether bot.sendMessage succeeds
sendTelegramNotification(cfg, net) ==
    IF ~cfg.telegramBotToken \/ ~cfg.telegramChatId
    THEN [attempts |-> 0, outcome |-> "skipped", threw |-> FALSE]
    ELSE IF net
    THEN [attempts |-> 1, outcome |-> "sent", threw |-> FALSE]
    ELSE [attempts |-> 1, outcome |-> "failed", threw |-> FALSE]

\* "await sendOneBotNotification(..); await sendTelegramNotification(..);"
notifyBoth(cfg, kind, obNet, tgNet) ==
    LET ob == sendOneBotNotification(cfg, obNet) IN
    IF ob.threw
    THEN [kind |-> kind, onebot |-> ob, telegram |-> NotCalled, threw |-> TRUE]
    ELSE LET tg == sendTelegramNotification(cfg, tgNet) IN
         [kind |-> kind, onebot |-> ob, telegram |-> tg, threw |-> tg.threw]

\* sendImageUploadNotification: Promise.all over both channels
sendImageUploadNotification(cfg, kind, obNet, tgNet) ==
    LET ob == sendOneBotNotification(cfg, obNet)
        tg == sendTelegramNotification(cfg, tgNet) IN
    [kind |-> kind, onebot |-> ob, telegram |-> tg, threw |-> ob.threw \/ tg.threw]

NoFanout == [kind |-> "none", onebot |-> NotCalled, telegram |-> NotCalled, threw |-> FALSE]

-----------------------------------------------------------------------------
(* Tool call records *)

NoResult == [kind |-> "none", code |-> "", status |-> "", requestId |-> "", records |-> <<>>]
McpError(code) == [kind |-> "error", code |-> code, status |-> "", requestId |-> "", records |-> <<>>]
Ack(status, rid) == [kind |-> "ok", code |-> "", status |-> status, requestId |-> rid, records |-> <<>>]
Results(recs) == [kind |-> "ok", code |-> "", status |-> "results", requestId |-> "", records |-> recs]

NoBody == [model |-> NoModel, image |-> FALSE]

IdleCall == [tool |-> "none", args |-> NullArgs, pc |-> "idle", result |-> NoResult,
             httpSent |-> {}, body |-> NoBody, spawned |-> 0,
             batch |-> <<>>, items |-> <<>>, records |-> <<>>, temp |-> "none", cleanup |-> FALSE]

\* a call that ended in the validation of its arguments
Rejected(tool, args, code) ==
    [IdleCall EXCEPT !.tool = tool, !.args = args, !.pc = "thrown", !.result = McpError(code)]

CallFinished == call.pc \in {"idle", "returned", "thrown"}

\* the run may still start a poll loop, a background image task
PollSlotFree == Len(polls) < MaxTasks

BgSlotFree == Len(bgTasks) < MaxTasks

-----------------------------------------------------------------------------
(* generate_video *)

isOneBotConfigured(cfg) ==
    cfg.onebotHttpUrl /\ cfg.onebotMessageType # "" /\ cfg.onebotTargetId

isTelegramConfigured_tokenOnly(cfg) ==
    cfg.telegramBotToken

isTelegramConfigured(cfg) ==
    cfg.telegramBotToken /\ cfg.telegramChatId

modelToUseForVideo(cfg, args) ==
    IF args.model # NoModel THEN args.model ELSE cfg.siliconflowVideoModel

isImageToVideoModel_never(m) == FALSE

isImageToVideoModel(m) == includes(m, I2VTag)

\* the checks made before the submission request; "ok" or the error thrown
videoPrecheck(cfg, args) ==
    IF ~isOneBotConfigured(cfg) /\ ~isTelegramConfigured(cfg)
    THEN "InvalidRequest"
    ELSE IF \/ ~args.isObject
            \/ ~Truthy(args.prompt) \/ ~IsString(args.prompt)
            \/ ~Truthy(args.image_size) \/ ~IsString(args.image_size)
    THEN "InvalidParams"
    ELSE IF modelToUseForVideo(cfg, args) \notin supportedVideoModels
    THEN "InvalidParams"
    ELSE IF /\ isImageToVideoModel(modelToUseForVideo(cfg, args))
            /\ (~Truthy(args.image) \/ ~IsString(args.image))
    THEN "InvalidParams"
    ELSE IF ~cfg.siliconflowApiKey
    THEN "InvalidRequest"
    ELSE "ok"

videoRequestBody(cfg, args) ==
    [model |-> modelToUseForVideo(cfg, args),
     image |-> isImageToVideoModel(modelToUseForVideo(cfg, args)) /\ Truthy(args.image)]

\* handleToolCall, case 'generate_video', up to the submission request
GenerateVideo(args) ==
    /\ CallFinished
    /\ PollSlotFree
    /\ LET chk == videoPrecheck(config, args) IN
       IF chk = "ok"
       THEN call' = [IdleCall EXCEPT !.tool = "generate_video", !.args = args,
                                     !.pc = "awaitSubmit", !.httpSent = {"video/submit"},
                                     !.body = videoRequestBody(config, args)]
       ELSE call' = Rejected("generate_video", args, chk)
    /\ UNCHANGED <<config, now, polls, bgTasks, lastFanout>>

\* what the provider may answer to /v1/video/submit
RequestIdVals == {[type |-> "string", val |-> "req-1"], [type |-> "string", val |-> "req-2"],
                  [type |-> "string", val |-> ""], [type |-> "number", val |-> "7"],
                  [type |-> "undefined", val |-> ""]}

SubmitResponses ==
    [kind : {"ok"}, requestId : RequestIdVals, status : {200}] \cup
    [kind : {"axiosError"}, requestId : {[type |-> "undefined", val |-> ""]},
     status : {0, 400, 401, 500}]

PollSubmitResponses ==
    {r \in SubmitResponses :
        \/ r.kind = "ok" /\ r.requestId.val \in {"req-1", ""}
        \/ r.kind = "axiosError" /\ r.status = 500}

\* the inner catch of the submission
submitErrorCode(resp) ==
    IF resp.kind = "axiosError"
    THEN IF resp.status = 400 THEN "InvalidParams"
         ELSE IF resp.status = 401 THEN "InvalidRequest"
         ELSE "InternalError"
    ELSE "InternalError"

validRequestId(rid) == rid.type = "string" /\ rid.val # ""

firstPollAt_immediate(t) == t

\* setTimeout(poll, pollInterval) at the end of handleSiliconFlowVideoGeneration
firstPollAt(t) == t + pollInterval

\* handleSiliconFlowVideoGeneration: the state of a new poll loop
handleSiliconFlowVideoGeneration(requestId, t) ==
    [requestId |-> requestId, startTime |-> t, timerAt |-> firstPollAt(t),
     pc |-> "timer", timers |-> 1, checks |-> 0,
     pending |-> 0, last |-> "none", lastUrl |-> FALSE,
     lastResp |-> "none", lastReason |-> FALSE,
     notes |-> <<>>, downloads |-> 0, uploads |-> 0]

SubmitResponse_loopBeforeCheck(resp) ==
    /\ call.pc = "awaitSubmit"
    /\ IF resp.kind = "ok"
       THEN /\ polls' = Append(polls, handleSiliconFlowVideoGeneration(resp.requestId.val, now))
            /\ call' = IF validRequestId(resp.requestId)
                       THEN [call EXCEPT !.pc = "returned",
                                         !.result = Ack("submitted", resp.requestId.val),
                                         !.spawned = Len(polls) + 1]
                       ELSE [call EXCEPT !.pc = "thrown", !.result = McpError("InternalError")]
       ELSE /\ polls' = polls
            /\ call' = [call EXCEPT !.pc = "thrown",
                                    !.result = McpError(submitErrorCode(resp))]
    /\ UNCHANGED <<config, now, bgTasks, lastFanout>>

\* handleToolCall, case 'generate_video', from the provider's answer on
SubmitResponse(resp) ==
    /\ call.pc = "awaitSubmit"
    /\ IF resp.kind = "ok" /\ validRequestId(resp.requestId)
       THEN /\ polls' = Append(polls, handleSiliconFlowVideoGeneration(resp.requestId.val, now))
            /\ call' = [call EXCEPT !.pc = "returned",
                                    !.result = Ack("submitted", resp.requestId.val),
                                    !.spawned = Len(polls) + 1]
       ELSE /\ polls' = polls
            /\ call' = [call EXCEPT !.pc = "thrown",
                                    !.result = McpError(submitErrorCode(resp))]
    /\ UNCHANGED <<config, now, bgTasks, lastFanout>>

-----------------------------------------------------------------------------
(* The video poll loop *)

\* what the status request may produce.  kind "error": axios.post rejects
\* (network failure, timeout, non-2xx status) or reading response.data.status
\* throws (a body that is JSON null).  kind "malformed": a 2xx answer whose
\* body is not a status object (text that is not JSON, an object without a
\* status): axios hands the body over as it is and nothing throws.
StatusResponses ==
    [kind : {"malformed"}, status : {""}, url : {FALSE}, reason : {FALSE}] \cup
    [kind : {"ok"}, status : {"Succeed"}, url : BOOLEAN, reason : {FALSE}] \cup
    [kind : {"ok"}, status : {"Failed"}, url : {FALSE}, reason : BOOLEAN] \cup
    [kind : {"ok"}, status : {"InQueue", "InProgress", "Paused"}, url : {FALSE}, reason : {FALSE}] \cup
    [kind : {"error"}, status : {""}, url : {FALSE}, reason : {FALSE}]

checkVideoStatus_passError(resp) ==
    [status |-> resp.status, url |-> resp.url, reason |-> resp.reason, synthetic |-> FALSE]

\* checkVideoStatus: the provider's answer, or a synthetic Failed on any error
checkVideoStatus(resp) ==
    IF resp.kind # "error"
    THEN [status |-> resp.status, url |-> resp.url, reason |-> resp.reason, synthetic |-> FALSE]
    ELSE [status |-> "Failed", url |-> FALSE, reason |-> TRUE, synthetic |-> TRUE]

timedOut_never(p, t) == FALSE

timedOut_atLimit(p, t) == t - p.startTime >= maxTimeout

\* "Date.now() - startTime > maxTimeout"
timedOut(p, t) == t - p.startTime > maxTimeout

continuePolling_unknown(status) == status \notin {"Succeed", "Failed"}

\* the statuses on which poll re-arms its timer
continuePolling(status) == status \in {"InQueue", "InProgress"}

hasVideoUrl_always(r) == TRUE

\* "statusResult.results?.videos?.[0]?.url" is present
hasVideoUrl(r) == r.url

\* a branch of poll that notifies and then leaves the switch
notifyAndStop(p, fan) ==
    [p EXCEPT !.pc = IF fan.threw THEN "crashed" ELSE "done",
              !.notes = Append(@, fan.kind)]

\* what a status answer adds to the record of the loop's observations
observe(p, resp, r) ==
    [p EXCEPT !.last = r.status, !.lastUrl = r.url,
              !.lastResp = resp.kind, !.lastReason = resp.reason,
              !.pending = IF r.status = "InQueue" \/ r.status = "InProgress" THEN @ + 1 ELSE @]

\* poll, from the timer callback to the status request (or the timeout branch)
PollTimerFire(i, obNet, tgNet) ==
    /\ i \in 1..Len(polls)
    /\ polls[i].pc = "timer"
    /\ now >= polls[i].timerAt
    /\ LET p == [polls[i] EXCEPT !.timers = @ - 1] IN
       IF timedOut(p, now)
       THEN polls' = [polls EXCEPT ![i] =
                         notifyAndStop(p, notifyBoth(config, "timeout", obNet, tgNet))]
       ELSE polls' = [polls EXCEPT ![i] = [p EXCEPT !.pc = "checking", !.checks = @ + 1]]
    /\ UNCHANGED <<config, now, call, bgTasks, lastFanout>>

failKind_reasonAlways(r) == "failedReason"

\* "statusResult.reason || <unknown error>" in the failure message
failKind(r) == IF r.reason THEN "failedReason" ELSE "failedUnknown"

pollSwitch_rearmTwice(p, r, t, cfg, obNet, tgNet) ==
    IF r.status = "Succeed"
    THEN IF ~hasVideoUrl(r)
         THEN notifyAndStop(p, notifyBoth(cfg, "noUrl", obNet, tgNet))
         ELSE [p EXCEPT !.pc = "downloading", !.downloads = @ + 1]
    ELSE IF r.status = "Failed"
    THEN notifyAndStop(p, notifyBoth(cfg, failKind(r), obNet, tgNet))
    ELSE IF continuePolling(r.status)
    THEN [p EXCEPT !.pc = "timer", !.timerAt = t + pollInterval, !.timers = @ + 2]
    ELSE notifyAndStop(p, notifyBoth(cfg, "unknownStatus", obNet, tgNet))

pollSwitch_defaultRearm(p, r, t, cfg, obNet, tgNet) ==
    IF r.status = "Succeed"
    THEN IF ~hasVideoUrl(r)
         THEN notifyAndStop(p, notifyBoth(cfg, "noUrl", obNet, tgNet))
         ELSE [p EXCEPT !.pc = "downloading", !.downloads = @ + 1]
    ELSE IF r.status = "Failed"
    THEN notifyAndStop(p, notifyBoth(cfg, failKind(r), obNet, tgNet))
    ELSE IF continuePolling(r.status)
    THEN [p EXCEPT !.pc = "timer", !.timerAt = t + pollInterval, !.timers = @ + 1]
    ELSE [p EXCEPT !.pc = "timer", !.timerAt = t + pollInterval, !.timers = @ + 1,
                   !.notes = Append(@, "unknownStatus")]

\* poll, the switch on statusResult.status
pollSwitch(p, r, t, cfg, obNet, tgNet) ==
    IF r.status = "Succeed"
    THEN IF ~hasVideoUrl(r)
         THEN notifyAndStop(p, notifyBoth(cfg, "noUrl", obNet, tgNet))
         ELSE [p EXCEPT !.pc = "downloading", !.downloads = @ + 1]
    ELSE IF r.status = "Failed"
    THEN notifyAndStop(p, notifyBoth(cfg, failKind(r), obNet, tgNet))
    ELSE IF continuePolling(r.status)
    THEN [p EXCEPT !.pc = "timer", !.timerAt = t + pollInterval, !.timers = @ + 1]
    ELSE notifyAndStop(p, notifyBoth(cfg, "unknownStatus", obNet, tgNet))

StatusResponse_sharedResult(i, resp, obNet, tgNet) ==
    /\ i \in 1..Len(polls)
    /\ polls[i].pc = "checking"
    /\ LET r == checkVideoStatus(resp) IN
       polls' = [j \in 1..Len(polls) |->
                    IF polls[j].pc = "checking"
                    THEN pollSwitch(observe(polls[j], resp, r), r, now, config, obNet, tgNet)
                    ELSE polls[j]]
    /\ UNCHANGED <<config, now, call, bgTasks, lastFanout>>

\* poll, from the answer of checkVideoStatus on
StatusResponse(i, resp, obNet, tgNet) ==
    /\ i \in 1..Len(polls)
    /\ polls[i].pc = "checking"
    /\ LET r == checkVideoStatus(resp) IN
       polls' = [polls EXCEPT ![i] = pollSwitch(observe(polls[i], resp, r), r, now, config, obNet, tgNet)]
    /\ UNCHANGED <<config, now, call, bgTasks, lastFanout>>

cfConfigured(cfg) == cfg.cfImgbedUploadUrl /\ cfg.cfImgbedApiKey

DownloadOutcomes == {"ok", "downloadFail", "readFail"}

afterDownload_silent(p, outcome, cfg, obNet, tgNet) ==
    IF outcome = "downloadFail" \/ (outcome = "readFail" /\ cfConfigured(cfg))
    THEN [p EXCEPT !.pc = "done"]
    ELSE IF cfConfigured(cfg)
    THEN [p EXCEPT !.pc = "uploading", !.uploads = @ + 1]
    ELSE notifyAndStop(p, notifyBoth(cfg, "success", obNet, tgNet))

afterDownload_fallthrough(p, outcome, cfg, obNet, tgNet) ==
    IF outcome = "downloadFail" \/ (outcome = "readFail" /\ cfConfigured(cfg))
    THEN notifyAndStop(notifyAndStop(p, notifyBoth(cfg, "processError", obNet, tgNet)),
                       notifyBoth(cfg, "success", obNet, tgNet))
    ELSE IF cfConfigured(cfg)
    THEN [p EXCEPT !.pc = "uploading", !.uploads = @ + 1]
    ELSE notifyAndStop(p, notifyBoth(cfg, "success", obNet, tgNet))

\* poll, case 'Succeed': after downloadFile (and readFile when the store is configured)
afterDownload(p, outcome, cfg, obNet, tgNet) ==
    IF outcome = "downloadFail" \/ (outcome = "readFail" /\ cfConfigured(cfg))
    THEN notifyAndStop(p, notifyBoth(cfg, "processError", obNet, tgNet))
    ELSE IF cfConfigured(cfg)
    THEN [p EXCEPT !.pc = "uploading", !.uploads = @ + 1]
    ELSE notifyAndStop(p, notifyBoth(cfg, "success", obNet, tgNet))

DownloadDone(i, outcome, obNet, tgNet) ==
    /\ i \in 1..Len(polls)
    /\ polls[i].pc = "downloading"
    /\ polls' = [polls EXCEPT ![i] = afterDownload(polls[i], outcome, config, obNet, tgNet)]
    /\ UNCHANGED <<config, now, call, bgTasks, lastFanout>>

afterUpload_failureStops(p, uploaded, cfg, obNet, tgNet) ==
    LET fan == notifyBoth(cfg, IF uploaded THEN "uploadOk" ELSE "uploadFail", obNet, tgNet) IN
    [p EXCEPT !.pc = IF fan.threw THEN "crashed" ELSE IF uploaded THEN "final" ELSE "done",
              !.notes = Append(@, fan.kind)]

\* poll, case 'Succeed': uploadToCfImgbed returned (a URL or null), upload notification
afterUpload(p, uploaded, cfg, obNet, tgNet) ==
    LET fan == notifyBoth(cfg, IF uploaded THEN "uploadOk" ELSE "uploadFail", obNet, tgNet) IN
    [p EXCEPT !.pc = IF fan.threw THEN "crashed" ELSE "final",
              !.notes = Append(@, fan.kind)]

UploadDone(i, uploaded, obNet, tgNet) ==
    /\ i \in 1..Len(polls)
    /\ polls[i].pc = "uploading"
    /\ polls' = [polls EXCEPT ![i] = afterUpload(polls[i], uploaded, config, obNet, tgNet)]
    /\ UNCHANGED <<config, now, call, bgTasks, lastFanout>>

\* poll, case 'Succeed': the final success notification
FinalNotify(i, obNet, tgNet) ==
    /\ i \in 1..Len(polls)
    /\ polls[i].pc = "final"
    /\ polls' = [polls EXCEPT ![i] =
                    notifyAndStop(polls[i], notifyBoth(config, "success", obNet, tgNet))]
    /\ UNCHANGED <<config, now, call, bgTasks, lastFanout>>

TaskIds == 1..(MaxTasks + 1)

-----------------------------------------------------------------------------
(* generate_image *)

ImageArgs ==
    {NullArgs} \cup
    [isObject : {TRUE}, prompt : ArgVals, image_size : {"undefined"},
     model : {NoModel, GptImage1, AzureDallE3, DallE2}, image : {"undefined"}]

\* one element of response.data.data: its url (absent, not an http URL, an
\* http URL) and whether it carries b64_json
\* decodes: Buffer.from(item.b64_json, 'base64') returns, which it does for
\* every string; it throws for a b64_json that is truthy and not a string
ItemKinds ==
    {[url |-> "valid", b64 |-> FALSE, decodes |-> FALSE],
     [url |-> "none", b64 |-> TRUE, decodes |-> TRUE],
     [url |-> "none", b64 |-> TRUE, decodes |-> FALSE],
     [url |-> "invalid", b64 |-> FALSE, decodes |-> FALSE],
     [url |-> "none", b64 |-> FALSE, decodes |-> FALSE]}

Batches == UNION {[1..k -> ItemKinds] : k \in 1..MaxItems}

\* what the provider may answer to an image request; data <<>> stands for a
\* missing, non-array or empty data field
ImageResponses ==
    [kind : {"axiosError"}, status : {0, 400, 500}, data : {<<>>}] \cup
    [kind : {"ok"}, status : {200}, data : {<<>>} \cup Batches]

\* the outcome of the file operations on one item: all succeed, the download
\* or the write fails, the read of a downloaded file fails
IOOutcomes == {"ok", "fail", "readFail"}

\* the outer catch of handleToolCall for an Axios error
axiosErrorCode_internalOnly(status) == "InternalError"

axiosErrorCode(status) ==
    IF status >= 400 /\ status < 500 THEN "InvalidParams" ELSE "InternalError"

modelToUseForGen(cfg, args) ==
    IF args.model # NoModel THEN args.model ELSE cfg.defaultImageModel

isSpecialModel_dalle3Only(m) == includes(m, DallE3)

\* isSpecialModelGen / isSpecialModelEdit
isSpecialModel(m) == includes(m, DallE3) \/ includes(m, GptImage1)

\* processImageGenerationInBackground / processImageEditInBackground, started
newBgTask(type, image) ==
    [type |-> type, pc |-> IF type = "generation" THEN "api" ELSE "input",
     image |-> image, batch |-> <<>>, items |-> <<>>, notes |-> <<>>, persisted |-> 0, uploads |-> 0,
     remote |-> 0, temp |-> "none", cleanup |-> FALSE,
     httpSent |-> IF type = "generation" THEN {"images/generations"} ELSE {}]

\* the body of the synchronous generation request: the prompt, the defaults
\* without their model, the model of the call and the response format, in a
\* new object from which the keys of the special models are then deleted
imageGenRequestBody(cfg, args) ==
    deleteKeys(
        spread(spread(spread([prompt |-> args.prompt],
                             deleteKeys(cfg.defaultImageConfig, {"model"})),
                      [model |-> modelToUseForGen(cfg, args)]),
               [response_format |-> "url"]),
        {"size", "quality", "background", "moderation"})

\* config.defaultImageConfig once the body was built, were the body built in
\* the defaults object itself
defaultImageConfigAfter_aliased(cfg, body) == body

\* config.defaultImageConfig once the body was built: the spread and the
\* destructuring copy out of it, the deletes act on the new object
defaultImageConfigAfter(cfg, body) == cfg.defaultImageConfig

\* handleToolCall, case 'generate_image', up to the dispatch
GenerateImage(args) ==
    /\ CallFinished
    /\ BgSlotFree
    /\ IF ~args.isObject \/ ~IsString(args.prompt)
       THEN /\ call' = Rejected("generate_image", args, "InvalidParams")
            /\ bgTasks' = bgTasks
       ELSE IF isSpecialModel(modelToUseForGen(config, args))
       THEN /\ bgTasks' = Append(bgTasks, newBgTask("generation", "undefined"))
            /\ call' = [IdleCall EXCEPT !.tool = "generate_image", !.args = args,
                                        !.pc = "returned",
                                        !.result = Ack("processing_in_background", ""),
                                        !.spawned = Len(bgTasks) + 1]
       ELSE /\ bgTasks' = bgTasks
            /\ call' = [IdleCall EXCEPT !.tool = "generate_image", !.args = args,
                                        !.pc = "awaitGen",
                                        !.httpSent = {"images/generations"}]
    /\ IF args.isObject /\ IsString(args.prompt)
             /\ ~isSpecialModel(modelToUseForGen(config, args))
       THEN config' = [config EXCEPT !.defaultImageConfig =
                          defaultImageConfigAfter(config, imageGenRequestBody(config, args))]
       ELSE config' = config
    /\ UNCHANGED <<now, polls, lastFanout>>

\* handleToolCall, case 'generate_image', synchronous path: the provider's answer
SyncGenResponse(resp) ==
    /\ call.pc = "awaitGen"
    /\ IF resp.kind = "axiosError"
       THEN call' = [call EXCEPT !.pc = "thrown", !.result = McpError(axiosErrorCode(resp.status))]
       ELSE IF resp.data = <<>>
       THEN call' = [call EXCEPT !.pc = "thrown", !.result = McpError("InternalError")]
       ELSE call' = [call EXCEPT !.pc = "genItems", !.batch = resp.data, !.items = resp.data]
    /\ UNCHANGED <<config, now, polls, bgTasks, lastFanout>>

\* the body of the synchronous loop for one item: the record pushed to results
syncGenItem(item, io, uploaded, cfg) ==
    LET viaUrl == item.url = "valid"
        viaB64 == ~viaUrl /\ item.b64 /\ item.decodes
        localPath == viaUrl \/ viaB64
        imageBuffer == (viaUrl /\ io = "ok") \/ viaB64
        saveError == \/ viaUrl /\ io # "ok"
                     \/ viaB64 /\ io = "fail"
                     \/ ~viaUrl /\ ~viaB64
        doUpload == cfConfigured(cfg) /\ imageBuffer /\ localPath
    IN [local_path |-> localPath,
        cloudflare_url |-> doUpload /\ uploaded,
        cloudflareUploadSuccess |-> doUpload /\ uploaded,
        error |-> saveError,
        persisted |-> (viaUrl /\ io # "fail") \/ (viaB64 /\ io # "fail"),
        fileOps |-> IF localPath THEN io ELSE "none",
        uploadTried |-> doUpload]

\* handleToolCall, case 'generate_image', synchronous path: one turn of the loop,
\* and the return after the last one
SyncGenItem(io, uploaded) ==
    /\ call.pc = "genItems"
    /\ LET recs == Append(call.records, syncGenItem(Head(call.items), io, uploaded, config)) IN
       IF Tail(call.items) = <<>>
       THEN call' = [call EXCEPT !.pc = "returned", !.items = <<>>, !.records = <<>>,
                                 !.result = Results(recs)]
       ELSE call' = [call EXCEPT !.items = Tail(@), !.records = recs]
    /\ UNCHANGED <<config, now, polls, bgTasks, lastFanout>>

-----------------------------------------------------------------------------
(* edit_image *)

EditArgs ==
    {NullArgs} \cup
    [isObject : {TRUE}, prompt : {"undefined", "empty", "string"}, image_size : {"undefined"},
     model : {NoModel, GptImage1, AzureDallE3, DallE2},
     image : {"undefined", "number", "string", "url"}]

modelToUseForEdit(cfg, args) ==
    IF args.model # NoModel THEN args.model ELSE cfg.defaultEditImageModel

\* handleToolCall, case 'edit_image', up to the dispatch
EditImage(args) ==
    /\ CallFinished
    /\ BgSlotFree
    /\ IF \/ ~args.isObject
          \/ ~Truthy(args.image) \/ ~IsString(args.image)
          \/ ~Truthy(args.prompt) \/ ~IsString(args.prompt)
       THEN /\ call' = Rejected("edit_image", args, "InvalidParams")
            /\ bgTasks' = bgTasks
       ELSE IF isSpecialModel(modelToUseForEdit(config, args))
       THEN /\ bgTasks' = Append(bgTasks, newBgTask("edit", args.image))
            /\ call' = [IdleCall EXCEPT !.tool = "edit_image", !.args = args,
                                        !.pc = "returned",
                                        !.result = Ack("processing_in_background", ""),
                                        !.spawned = Len(bgTasks) + 1]
       ELSE /\ bgTasks' = bgTasks
            /\ call' = [IdleCall EXCEPT !.tool = "edit_image", !.args = args,
                                        !.pc = "editInput"]
    /\ UNCHANGED <<config, now, polls, lastFanout>>

\* the input image of an edit: downloaded to a temp file when it is an http
\* URL, else checked for access; then read.  stage is where it stopped
\* ("download", "access", "read") or "ok"; temp tells what is left of the temp
\* file: "none" (never created), "partial" (left by a failed download),
\* "present", "removed"
editInput(image, io) ==
    IF isValidHttpUrl(image)
    THEN IF io = "fail"
         THEN [stage |-> "download", temp |-> "partial", cleanup |-> FALSE]
         ELSE IF io = "readFail"
         THEN [stage |-> "read", temp |-> "removed", cleanup |-> TRUE]
         ELSE [stage |-> "ok", temp |-> "present", cleanup |-> TRUE]
    ELSE IF io = "fail"
         THEN [stage |-> "access", temp |-> "none", cleanup |-> FALSE]
         ELSE IF io = "readFail"
         THEN [stage |-> "read", temp |-> "none", cleanup |-> FALSE]
         ELSE [stage |-> "ok", temp |-> "none", cleanup |-> FALSE]

\* the unlink of the temp file when cleanupTempFile is set
unlinkTemp(temp, cleanup) == IF cleanup THEN "removed" ELSE temp

\* handleToolCall, case 'edit_image', synchronous path: the input image
SyncEditInput(io) ==
    /\ call.pc = "editInput"
    /\ LET in == editInput(call.args.image, io) IN
       IF in.stage = "ok"
       THEN call' = [call EXCEPT !.pc = "awaitEdit", !.temp = in.temp, !.cleanup = in.cleanup,
                                 !.httpSent = {"images/edits"}]
       ELSE call' = [call EXCEPT !.pc = "thrown", !.temp = in.temp, !.cleanup = in.cleanup,
                                 !.result = McpError(IF in.stage = "access" THEN "InvalidParams"
                                                     ELSE "InternalError")]
    /\ UNCHANGED <<config, now, polls, bgTasks, lastFanout>>

\* handleToolCall, case 'edit_image', synchronous path: the provider's answer
SyncEditResponse(resp) ==
    /\ call.pc = "awaitEdit"
    /\ LET c == [call EXCEPT !.temp = unlinkTemp(call.temp, call.cleanup)] IN
       IF resp.kind = "axiosError"
       THEN call' = [c EXCEPT !.pc = "thrown", !.result = McpError(axiosErrorCode(resp.status))]
       ELSE IF resp.data = <<>>
       THEN call' = [c EXCEPT !.pc = "thrown", !.result = McpError("InternalError")]
       ELSE call' = [c EXCEPT !.pc = "editItems", !.batch = resp.data, !.items = resp.data]
    /\ UNCHANGED <<config, now, polls, bgTasks, lastFanout>>

\* the body of the synchronous edit loop for one item
syncEditItem(item, io, uploaded, cfg) ==
    LET viaB64 == item.b64 /\ item.decodes
        saveError == ~viaB64 \/ io = "fail"
        doUpload == cfConfigured(cfg) /\ viaB64
    IN [local_path |-> viaB64,
        cloudflare_url |-> doUpload /\ uploaded,
        cloudflareUploadSuccess |-> doUpload /\ uploaded,
        error |-> saveError,
        persisted |-> viaB64 /\ io # "fail",
        fileOps |-> IF viaB64 THEN io ELSE "none",
        uploadTried |-> doUpload]

SyncEditItem(io, uploaded) ==
    /\ call.pc = "editItems"
    /\ LET recs == Append(call.records, syncEditItem(Head(call.items), io, uploaded, config)) IN
       IF Tail(call.items) = <<>>
       THEN call' = [call EXCEPT !.pc = "returned", !.items = <<>>, !.records = <<>>,
                                 !.result = Results(recs)]
       ELSE call' = [call EXCEPT !.items = Tail(@), !.records = recs]
    /\ UNCHANGED <<config, now, polls, bgTasks, lastFanout>>

-----------------------------------------------------------------------------
(* generate_speech and transcribe_audio *)

\* input: absent, not a string, a string, a string longer than 4096;
\* speed: absent, not a number, below 0.25, in range, above 4.0
SpeechArgs ==
    {[isObject |-> FALSE, input |-> "undefined", voice |-> "undefined",
      model |-> "undefined", speed |-> "undefined"]} \cup
    [isObject : {TRUE}, input : {"undefined", "number", "string", "long"},
     voice : {"undefined", "number", "string"}, model : {"undefined", "number", "string"},
     speed : {"undefined", "nan", "low", "ok", "high"}]

isGenerateSpeechArgs(v) ==
    /\ v.isObject
    /\ v.input = "string"
    /\ v.voice \in {"undefined", "string"}
    /\ v.model \in {"undefined", "string"}
    /\ v.speed \in {"undefined", "ok"}

\* handleToolCall, case 'generate_speech', up to the provider request
GenerateSpeech(args) ==
    /\ CallFinished
    /\ IF ~isGenerateSpeechArgs(args)
       THEN call' = Rejected("generate_speech", args, "InvalidParams")
       ELSE call' = [IdleCall EXCEPT !.tool = "generate_speech", !.args = args,
                                     !.pc = "awaitSpeech", !.httpSent = {"audio/speech"}]
    /\ UNCHANGED <<config, now, polls, bgTasks, lastFanout>>

SpeechResponses == [kind : {"axiosError"}, status : {0, 400, 500}] \cup [kind : {"ok"}, status : {200}]

\* the WebDAV step: its settings are absent, or the PUT succeeds or fails
WebdavOutcomes == {"skipped", "success", "failed"}

\* handleToolCall, case 'generate_speech': the provider's answer, the save and
\* the WebDAV upload
SpeechResponse(resp, io, webdav) ==
    /\ call.pc = "awaitSpeech"
    /\ IF resp.kind = "axiosError"
       THEN call' = [call EXCEPT !.pc = "thrown", !.result = McpError(axiosErrorCode(resp.status))]
       ELSE IF io = "fail"
       THEN call' = [call EXCEPT !.pc = "thrown", !.result = McpError("InternalError")]
       ELSE call' = [call EXCEPT !.pc = "returned",
                                 !.result = Results(<<[path |-> TRUE, webdavUploadStatus |-> webdav]>>)]
    /\ UNCHANGED <<config, now, polls, bgTasks, lastFanout>>

TranscribeArgs ==
    {[isObject |-> FALSE, file |-> "undefined", model |-> "undefined"]} \cup
    [isObject : {TRUE}, file : {"undefined", "number", "string", "url"},
     model : {"undefined", "number", "string"}]

isTranscribeAudioArgs_objectOnly(v) == v.isObject

isTranscribeAudioArgs(v) ==
    /\ v.isObject
    /\ IsString(v.file)
    /\ v.model \in {"undefined", "string"}

\* handleToolCall, case 'transcribe_audio', validation
TranscribeAudio(args) ==
    /\ CallFinished
    /\ IF ~isTranscribeAudioArgs(args)
       THEN call' = Rejected("transcribe_audio", args, "InvalidParams")
       ELSE call' = [IdleCall EXCEPT !.tool = "transcribe_audio", !.args = args,
                                     !.pc = "transcribeInput"]
    /\ UNCHANGED <<config, now, polls, bgTasks, lastFanout>>

\* handleToolCall, case 'transcribe_audio': the audio file is downloaded to a
\* temp file when it is an http URL, else checked for access
TranscribeInput(io) ==
    /\ call.pc = "transcribeInput"
    /\ IF isValidHttpUrl(call.args.file)
       THEN IF io = "fail"
            THEN call' = [call EXCEPT !.pc = "thrown", !.temp = "partial",
                                      !.result = McpError("InternalError")]
            ELSE call' = [call EXCEPT !.pc = "awaitTranscribe", !.temp = "present",
                                      !.cleanup = TRUE,
                                      !.httpSent = {"audio/transcriptions"}]
       ELSE IF io = "fail"
            THEN call' = [call EXCEPT !.pc = "thrown", !.result = McpError("InvalidParams")]
            ELSE call' = [call EXCEPT !.pc = "awaitTranscribe",
                                      !.httpSent = {"audio/transcriptions"}]
    /\ UNCHANGED <<config, now, polls, bgTasks, lastFanout>>

TranscribeResponses ==
    [kind : {"axiosError"}, status : {0, 400, 500}, text : {FALSE}] \cup
    [kind : {"ok"}, status : {200}, text : BOOLEAN]

\* handleToolCall, case 'transcribe_audio': the provider's answer and the cleanup
TranscribeResponse(resp) ==
    /\ call.pc = "awaitTranscribe"
    /\ LET c == [call EXCEPT !.temp = unlinkTemp(call.temp, call.cleanup)] IN
       IF resp.kind = "axiosError"
       THEN call' = [c EXCEPT !.pc = "thrown", !.result = McpError(axiosErrorCode(resp.status))]
       ELSE IF ~resp.text
       THEN call' = [c EXCEPT !.pc = "thrown", !.result = McpError("InternalError")]
       ELSE call' = [c EXCEPT !.pc = "returned", !.result = Results(<<[text |-> TRUE]>>)]
    /\ UNCHANGED <<config, now, polls, bgTasks, lastFanout>>

\* handleToolCall, default case: a tool name that is none of the five
UnknownTool ==
    /\ CallFinished
    /\ call' = Rejected("unknown_tool", NullArgs, "MethodNotFound")
    /\ UNCHANGED <<config, now, polls, bgTasks, lastFanout>>

-----------------------------------------------------------------------------
(* Background image tasks *)

\* a step of a background task that notifies
bgNote(t, fan) ==
    [t EXCEPT !.notes = Append(@, fan.kind),
              !.pc = IF fan.threw THEN "crashed" ELSE @]

bgApiFailed_silent(t, cfg, obNet, tgNet) == [t EXCEPT !.pc = "done"]

\* the catch around the provider call: one failure notification, then return
bgApiFailed(t, cfg, obNet, tgNet) ==
    [bgNote(t, notifyBoth(cfg, "apiError", obNet, tgNet)) EXCEPT
        !.pc = IF @ = "crashed" THEN @ ELSE "done"]

\* processImageGenerationInBackground: the provider's answer
BgGenResponse(i, resp, obNet, tgNet) ==
    /\ i \in 1..Len(bgTasks)
    /\ bgTasks[i].type = "generation"
    /\ bgTasks[i].pc = "api"
    /\ IF resp.kind = "axiosError" \/ resp.data = <<>>
       THEN bgTasks' = [bgTasks EXCEPT ![i] = bgApiFailed(@, config, obNet, tgNet)]
       ELSE bgTasks' = [bgTasks EXCEPT ![i] = [@ EXCEPT !.pc = "items", !.batch = resp.data,
                                                        !.items = resp.data]]
    /\ UNCHANGED <<config, now, call, polls, lastFanout>>

completeImageProcessingAndNotify_silentWithoutStore(t, imageBuffer, localPath, uploaded, cfg, obNet, tgNet) ==
    IF cfg.cfImgbedUploadUrl /\ cfg.cfImgbedApiKey /\ imageBuffer /\ localPath
    THEN bgNote([t EXCEPT !.uploads = @ + 1, !.remote = IF uploaded THEN @ + 1 ELSE @],
                sendImageUploadNotification(cfg, IF uploaded THEN "resultRemote" ELSE "resultLocal",
                                            obNet, tgNet))
    ELSE t

\* completeImageProcessingAndNotify; uploaded: uploadToCfImgbed returned a URL
completeImageProcessingAndNotify(t, imageBuffer, localPath, uploaded, cfg, obNet, tgNet) ==
    IF cfg.cfImgbedUploadUrl /\ cfg.cfImgbedApiKey /\ imageBuffer /\ localPath
    THEN bgNote([t EXCEPT !.uploads = @ + 1, !.remote = IF uploaded THEN @ + 1 ELSE @],
                sendImageUploadNotification(cfg, IF uploaded THEN "resultRemote" ELSE "resultLocal",
                                            obNet, tgNet))
    ELSE IF cfg.cfImgbedUploadUrl /\ cfg.cfImgbedApiKey
    THEN IF localPath
         THEN bgNote(t, sendImageUploadNotification(cfg, "resultLocal", obNet, tgNet))
         ELSE t
    ELSE IF localPath
    THEN bgNote(t, sendImageUploadNotification(cfg, "resultLocal", obNet, tgNet))
    ELSE t

\* after one turn of an item loop: the next item, or the end of the task
nextItem(t) ==
    IF t.pc = "crashed" THEN t
    ELSE [t EXCEPT !.items = Tail(@), !.pc = IF Tail(t.items) = <<>> THEN "done" ELSE "items"]

\* processImageGenerationInBackground: the body of the loop for one item
bgGenItem(t, io, uploaded, cfg, obNet, tgNet) ==
    LET item == Head(t.items)
        viaB64 == item.b64
        viaUrl == ~viaB64 /\ item.url = "valid"
        failed == \/ viaB64 /\ (~item.decodes \/ io = "fail")
                  \/ viaUrl /\ io # "ok"
                  \/ ~viaB64 /\ ~viaUrl
    IN IF failed
       THEN nextItem(bgNote(t, notifyBoth(cfg, "itemError", obNet, tgNet)))
       ELSE nextItem(completeImageProcessingAndNotify([t EXCEPT !.persisted = @ + 1],
                                                      TRUE, TRUE, uploaded, cfg, obNet, tgNet))

BgGenItem(i, io, uploaded, obNet, tgNet) ==
    /\ i \in 1..Len(bgTasks)
    /\ bgTasks[i].type = "generation"
    /\ bgTasks[i].pc = "items"
    /\ bgTasks' = [bgTasks EXCEPT ![i] = bgGenItem(@, io, uploaded, config, obNet, tgNet)]
    /\ UNCHANGED <<config, now, call, polls, lastFanout>>

\* processImageEditInBackground: the input image
BgEditInput(i, io, obNet, tgNet) ==
    /\ i \in 1..Len(bgTasks)
    /\ bgTasks[i].type = "edit"
    /\ bgTasks[i].pc = "input"
    /\ LET in == editInput(bgTasks[i].image, io)
           t == [bgTasks[i] EXCEPT !.temp = in.temp, !.cleanup = in.cleanup] IN
       IF in.stage = "ok"
       THEN bgTasks' = [bgTasks EXCEPT ![i] = [t EXCEPT !.pc = "api",
                                                        !.httpSent = {"images/edits"}]]
       ELSE bgTasks' = [bgTasks EXCEPT ![i] =
                           [bgNote(t, notifyBoth(config, "inputError", obNet, tgNet)) EXCEPT
                               !.pc = IF @ = "crashed" THEN @ ELSE "done"]]
    /\ UNCHANGED <<config, now, call, polls, lastFanout>>

\* processImageEditInBackground: the provider's answer
BgEditResponse(i, resp, obNet, tgNet) ==
    /\ i \in 1..Len(bgTasks)
    /\ bgTasks[i].type = "edit"
    /\ bgTasks[i].pc = "api"
    /\ LET t == [bgTasks[i] EXCEPT !.temp = unlinkTemp(@, bgTasks[i].cleanup)] IN
       IF resp.kind = "axiosError" \/ resp.data = <<>>
       THEN bgTasks' = [bgTasks EXCEPT ![i] = bgApiFailed(t, config, obNet, tgNet)]
       ELSE bgTasks' = [bgTasks EXCEPT ![i] = [t EXCEPT !.pc = "items", !.batch = resp.data,
                                                        !.items = resp.data]]
    /\ UNCHANGED <<config, now, call, polls, lastFanout>>

\* processImageEditInBackground: the body of the loop for one item.  The
\* decoding of b64_json stands outside the try of the loop: when it throws, the
\* promise of the task rejects and the .catch of the handler only logs.
bgEditItem(t, io, uploaded, cfg, obNet, tgNet) ==
    LET item == Head(t.items) IN
    IF item.b64 /\ ~item.decodes
    THEN [t EXCEPT !.pc = "rejected"]
    ELSE IF ~item.b64 \/ io = "fail"
    THEN nextItem(bgNote(t, notifyBoth(cfg, "itemError", obNet, tgNet)))
    ELSE nextItem(completeImageProcessingAndNotify([t EXCEPT !.persisted = @ + 1],
                                                   TRUE, TRUE, uploaded, cfg, obNet, tgNet))

BgEditItem(i, io, uploaded, obNet, tgNet) ==
    /\ i \in 1..Len(bgTasks)
    /\ bgTasks[i].type = "edit"
    /\ bgTasks[i].pc = "items"
    /\ bgTasks' = [bgTasks EXCEPT ![i] = bgEditItem(@, io, uploaded, config, obNet, tgNet)]
    /\ UNCHANGED <<config, now, call, polls, lastFanout>>

-----------------------------------------------------------------------------
(* The clock *)

ShortSteps(t) == (t % maxTimeout) \div pollInterval

Tick ==
    /\ ShortSteps(now) < MaxTicks
    /\ now' = now + pollInterval
    /\ UNCHANGED <<config, call, polls, bgTasks, lastFanout>>

Sleep ==
    /\ now < maxTimeout
    /\ now' = now + maxTimeout
    /\ UNCHANGED <<config, call, polls, bgTasks, lastFanout>>

\* after the first day: the time until the earliest armed timer elapses
TimerElapses ==
    /\ now >= maxTimeout
    /\ \E i \in 1..Len(polls) :
          /\ polls[i].pc = "timer" /\ polls[i].timerAt > now
          /\ \A j \in 1..Len(polls) :
                (polls[j].pc = "timer" /\ polls[j].timerAt > now)
                    => polls[j].timerAt >= polls[i].timerAt
          /\ now' = polls[i].timerAt
    /\ UNCHANGED <<config, call, polls, bgTasks, lastFanout>>

-----------------------------------------------------------------------------
(* Notification fan-out, as its callers invoke it *)

NoteKinds == {"timeout", "noUrl", "failedReason", "failedUnknown", "unknownStatus",
              "processError", "uploadOk", "uploadFail", "success"}

\* the sequential pair of awaits used by poll and by the background image tasks
NotifySequential(kind, obNet, tgNet) ==
    /\ lastFanout' = notifyBoth(config, kind, obNet, tgNet)
    /\ UNCHANGED <<config, now, call, polls, bgTasks>>

\* sendImageUploadNotification, as completeImageProcessingAndNotify awaits it
NotifyConcurrent(kind, obNet, tgNet) ==
    /\ lastFanout' = sendImageUploadNotification(config, kind, obNet, tgNet)
    /\ UNCHANGED <<config, now, call, polls, bgTasks>>

-----------------------------------------------------------------------------
(* Properties *)

Count(seq, S) == Cardinality({k \in 1..Len(seq) : seq[k] \in S})

TerminalNotes == {"timeout", "noUrl", "failedReason", "failedUnknown", "unknownStatus",
                  "processError", "success"}
UploadNotes == {"uploadOk", "uploadFail"}

NoChannelConfigured ==
    /\ (~config.onebotHttpUrl \/ config.onebotMessageType = "" \/ ~config.onebotTargetId)
    /\ (~config.telegramBotToken \/ ~config.telegramChatId)

StoreConfigured == config.cfImgbedUploadUrl /\ config.cfImgbedApiKey

\* the loop has left the polling phase: a terminal status was observed or it timed out
Stopped(p) == p.pc \in {"downloading", "uploading", "final", "done"}

\* C1: a generate_video call made while no notification channel is configured
\* fails with InvalidRequest, sends no submission request and starts no poll
\* loop, whatever its arguments.
C1_NoChannelRejected ==
    (call.tool = "generate_video" /\ NoChannelConfigured) =>
        /\ call.pc = "thrown"
        /\ call.result = McpError("InvalidRequest")
        /\ call.httpSent = {}
        /\ call.spawned = 0
        /\ polls = <<>>

\* C1, reached: an otherwise valid call, with the API key set, was rejected
\* because no channel is configured
C1_Witness ==
    /\ call.tool = "generate_video"
    /\ NoChannelConfigured
    /\ call.args.prompt = "string" /\ call.args.image_size = "string"
    /\ config.siliconflowApiKey
    /\ call.pc = "thrown"

C3_SucceedWithoutUrl ==
    /\ [](\A i \in 1..Len(polls) :
            (polls[i].last = "Succeed" /\ ~polls[i].lastUrl) =>
                /\ polls[i].pc = "done"
                /\ polls[i].notes = <<"noUrl">>
                /\ polls[i].downloads = 0
                /\ polls[i].uploads = 0
                /\ polls[i].timers = 0)
    /\ [][\A i \in 1..Len(polls) :
            (polls[i].last = "Succeed" /\ ~polls[i].lastUrl) => polls'[i] = polls[i]]_vars

\* C3, reached: a loop polled at least once, then observed Succeed without a
\* media URL, and has finished
C3_Witness ==
    \E i \in 1..Len(polls) :
        /\ polls[i].last = "Succeed" /\ ~polls[i].lastUrl
        /\ polls[i].pending >= 1
        /\ polls[i].pc = "done"

\* C4: a poll loop that observes InQueue / InProgress N times and then Succeed
\* has made exactly N+1 status checks, and when it has finished it has sent
\* exactly one terminal notification plus at most one upload notification,
\* the latter only when the remote store is configured.
C4_ChecksAndNotifications ==
    \A i \in 1..Len(polls) :
        polls[i].last = "Succeed" =>
            /\ polls[i].checks = polls[i].pending + 1
            /\ polls[i].pc = "done" =>
                  /\ Count(polls[i].notes, TerminalNotes) = 1
                  /\ Count(polls[i].notes, UploadNotes) <= (IF StoreConfigured THEN 1 ELSE 0)
                  /\ Len(polls[i].notes) = 1 + Count(polls[i].notes, UploadNotes)

\* C4, reached: N = 2, three status checks, an upload notification and the
\* success notification
C4_Witness ==
    \E i \in 1..Len(polls) :
        /\ polls[i].last = "Succeed"
        /\ polls[i].pending = 2
        /\ polls[i].checks = 3
        /\ polls[i].pc = "done"
        /\ polls[i].notes = <<"uploadOk", "success">>

\* C5: at the first timer callback whose elapsed time exceeds 24 hours the loop
\* sends one timeout notification fan-out without a status check, whatever the
\* last observed status, and arms no timer; the timeout notification is sent
\* only then, and nothing happens in the loop afterwards.
C5_Timeout ==
    /\ [][\A i \in 1..Len(polls) :
            /\ (polls[i].pc = "timer" /\ polls'[i] # polls[i]
                  /\ now - polls[i].startTime > maxTimeout) =>
                  /\ polls'[i].pc = "done"
                  /\ polls'[i].notes = <<"timeout">>
                  /\ polls'[i].checks = polls[i].checks
                  /\ polls'[i].timers = 0
            /\ Count(polls[i].notes, {"timeout"}) > 0 => polls'[i] = polls[i]]_vars
    /\ [](\A i \in 1..Len(polls) :
            Count(polls[i].notes, {"timeout"}) > 0 =>
                /\ polls[i].notes = <<"timeout">>
                /\ polls[i].pc = "done"
                /\ now - polls[i].startTime > maxTimeout)

\* C5, reached: a loop that last observed InProgress timed out
C5_Witness ==
    \E i \in 1..Len(polls) :
        /\ polls[i].notes = <<"timeout">>
        /\ polls[i].last = "InProgress"
        /\ polls[i].pc = "done"

BothChannelsConfigured ==
    /\ config.onebotHttpUrl /\ config.onebotTargetId
    /\ config.onebotMessageType \in {"private", "group"}
    /\ config.telegramBotToken /\ config.telegramChatId

\* C6: with both channels configured every notification is attempted exactly
\* once on each channel, whatever happens on the other channel, and no failure
\* reaches the caller.
C6_ChannelsIndependent ==
    (lastFanout.kind # "none" /\ BothChannelsConfigured) =>
        /\ lastFanout.onebot.attempts = 1
        /\ lastFanout.telegram.attempts = 1
        /\ lastFanout.onebot.outcome \in {"sent", "failed"}
        /\ lastFanout.telegram.outcome \in {"sent", "failed"}
        /\ ~lastFanout.threw

\* C6, reached: both channels configured, OneBot delivery failed and Telegram
\* delivery succeeded for the same message
C6_Witness ==
    /\ BothChannelsConfigured
    /\ lastFanout.kind = "success"
    /\ lastFanout.onebot.outcome = "failed"
    /\ lastFanout.telegram.outcome = "sent"

\* the effective model of an image call, and the README's test on its name
EffectiveModel(requested, default) == IF requested # NoModel THEN requested ELSE default

NameIsSpecial(m) == includes(m, DallE3) \/ includes(m, GptImage1)

SyncResults(tool) ==
    call.tool = tool /\ call.pc = "returned" /\ call.result.kind = "ok" /\ call.result.status = "results"

\* C7 (as stated): in the synchronous generate_image path every item of a
\* non-empty batch yields exactly one record, in order; a record either names a
\* persisted artifact and carries no error, or carries an error and names no
\* artifact, and an item with neither a valid url nor b64_json carries an error.
C7_RecordPerItem ==
    SyncResults("generate_image") =>
        /\ Len(call.result.records) = Len(call.batch)
        /\ \A k \in 1..Len(call.batch) :
              LET rec == call.result.records[k]
                  item == call.batch[k] IN
              /\ (item.url # "valid" /\ ~item.b64) => rec.error
              /\ IF rec.error THEN ~rec.local_path
                 ELSE rec.local_path /\ rec.persisted

\* where the synchronous generate_image path departs from C7: an item whose
\* download failed is returned with an error and a local_path
C7_ErrorWithPath ==
    /\ SyncResults("generate_image")
    /\ \E k \in 1..Len(call.batch) :
          /\ call.batch[k].url = "valid"
          /\ call.result.records[k].error
          /\ call.result.records[k].local_path
          /\ ~call.result.records[k].persisted

\* C8: a video call returns 'submitted' in the step that starts its poll loop,
\* no status check of a loop happens before one poll interval has passed since
\* its start; an image call returns 'processing_in_background' in the step that
\* starts its background task, before the provider has answered; and no step of
\* a poll loop or of a background task changes the tool call or its response.
C8_AckBeforeBackground ==
    /\ [](\A i \in 1..Len(polls) :
            polls[i].checks > 0 => now >= polls[i].startTime + pollInterval)
    /\ [][Len(polls') > Len(polls) =>
            /\ call'.pc = "returned"
            /\ call'.result.kind = "ok" /\ call'.result.status = "submitted"
            /\ polls'[Len(polls')].checks = 0
            /\ polls'[Len(polls')].pc = "timer"]_vars
    /\ [][Len(bgTasks') > Len(bgTasks) =>
            /\ call'.pc = "returned"
            /\ call'.result.kind = "ok"
            /\ call'.result.status = "processing_in_background"
            /\ bgTasks'[Len(bgTasks')].pc \in {"api", "input"}
            /\ bgTasks'[Len(bgTasks')].notes = <<>>]_vars
    /\ [][(\/ Len(polls') = Len(polls) /\ polls' # polls
           \/ Len(bgTasks') = Len(bgTasks) /\ bgTasks' # bgTasks) => call' = call]_vars

\* a poll loop made its first check one interval after its start, a background
\* image task reported a provider failure by notification, and the call that
\* started it still holds its acknowledgement
C8_Witness ==
    /\ \E i \in 1..Len(polls) :
          polls[i].checks = 1 /\ now = polls[i].startTime + pollInterval
    /\ \E i \in 1..Len(bgTasks) : bgTasks[i].notes = <<"apiError">>
    /\ call.pc = "returned" /\ call.result.status = "processing_in_background"

GenAccepted(args) == args.isObject /\ IsString(args.prompt)

\* C9: an accepted generate_image call whose effective model name contains
\* 'dall-e-3' or 'gpt-image-1' starts a background generation task and returns
\* the acknowledgement, and a finished task has notified once per item; with any
\* other model the call starts no task, returns one record per item, and its
\* steps send no notification.
C9_RoutedByModel ==
    /\ []((call.tool = "generate_image" /\ GenAccepted(call.args)) =>
            IF NameIsSpecial(EffectiveModel(call.args.model, config.defaultImageModel))
            THEN /\ call.pc = "returned"
                 /\ call.result.kind = "ok"
                 /\ call.result.status = "processing_in_background"
                 /\ call.spawned \in 1..Len(bgTasks)
                 /\ bgTasks[call.spawned].type = "generation"
            ELSE /\ call.spawned = 0
                 /\ call.pc \in {"awaitGen", "genItems", "returned", "thrown"}
                 /\ call.pc = "returned" =>
                       /\ call.result.kind = "ok" /\ call.result.status = "results"
                       /\ Len(call.result.records) = Len(call.batch)
                       /\ call.batch # <<>>)
    /\ [](\A i \in 1..Len(bgTasks) :
            (bgTasks[i].pc = "done" /\ bgTasks[i].batch # <<>>) =>
                Len(bgTasks[i].notes) = Len(bgTasks[i].batch))
    /\ [][(call.pc \in {"awaitGen", "genItems"}
           \/ (call.tool = "generate_image" /\ call'.pc \in {"awaitGen", "genItems"}))
          /\ call' # call => UNCHANGED <<bgTasks, lastFanout>>]_vars

\* the background route taken on the model name: a call naming gpt-image-1,
\* with another default model, was acknowledged and its task has notified the
\* outcome of each of its two items
C9_Witness ==
    /\ call.tool = "generate_image"
    /\ call.args.model = GptImage1
    /\ config.defaultImageModel = FluxSchnell
    /\ call.result.status = "processing_in_background"
    /\ call.spawned \in 1..Len(bgTasks)
    /\ bgTasks[call.spawned].pc = "done"
    /\ Len(bgTasks[call.spawned].batch) = 2
    /\ Len(bgTasks[call.spawned].notes) = 2

EditAccepted(args) ==
    /\ args.isObject
    /\ Truthy(args.image) /\ IsString(args.image)
    /\ Truthy(args.prompt) /\ IsString(args.prompt)

\* C10 (as stated): every accepted edit_image call, whatever its model, starts
\* a background task and returns the processing acknowledgement; it never
\* returns the edited images in the tool response.
C10_EditAlwaysBackground ==
    (call.tool = "edit_image" /\ EditAccepted(call.args)) =>
        /\ call.pc = "returned"
        /\ call.result.status = "processing_in_background"
        /\ call.spawned \in 1..Len(bgTasks)

\* where edit_image departs from C10: a call with a model that is not special
\* returns the records of the edited images and starts no background task
C10_SyncEdit ==
    /\ SyncResults("edit_image")
    /\ call.spawned = 0
    /\ \E k \in 1..Len(call.result.records) : call.result.records[k].persisted

\* an argument of a call is not a string
NotAString(v) == v \in {"undefined", "number"}

ChannelConfigured ==
    \/ config.onebotHttpUrl /\ config.onebotMessageType # "" /\ config.onebotTargetId
    \/ config.telegramBotToken /\ config.telegramChatId

\* the latest call lacks a required argument, or has it with the wrong type
MalformedCall ==
    \/ call.tool \in {"generate_image", "edit_image", "generate_speech", "transcribe_audio"}
          /\ ~call.args.isObject
    \/ call.tool = "generate_image" /\ NotAString(call.args.prompt)
    \/ call.tool = "edit_image" /\ (NotAString(call.args.image) \/ NotAString(call.args.prompt))
    \/ call.tool = "generate_video" /\ ChannelConfigured
          /\ (~call.args.isObject \/ NotAString(call.args.prompt)
                \/ NotAString(call.args.image_size))
    \/ call.tool = "generate_speech"
          /\ \/ call.args.input # "string"
             \/ call.args.voice = "number" \/ call.args.model = "number"
             \/ call.args.speed \in {"nan", "low", "high"}
    \/ call.tool = "transcribe_audio" /\ NotAString(call.args.file)

\* C11: a call of any tool whose required arguments are missing or of the wrong
\* type has failed with InvalidParams, has sent no provider request, has
\* created no temp file and has started no background task; it was rejected in
\* the step that started it, so nothing was attempted twice.
C11_MalformedRejected ==
    /\ [](MalformedCall =>
            /\ call.pc = "thrown"
            /\ call.result = McpError("InvalidParams")
            /\ call.httpSent = {}
            /\ call.spawned = 0
            /\ call.temp = "none")
    /\ [][(MalformedCall' /\ call' # call) => (CallFinished /\ UNCHANGED <<polls, bgTasks>>)]_vars

\* C11, reached: with a channel configured, a generate_video call with a
\* numeric image_size was rejected
C11_Witness ==
    /\ call.tool = "generate_video"
    /\ ChannelConfigured
    /\ call.args.prompt = "string" /\ call.args.image_size = "number"
    /\ call.pc = "thrown"

\* C12: when the status request raises an error (network failure, timeout,
\* non-2xx answer, a body whose reading throws) the poll loop treats it as
\* Failed: it does not crash, makes exactly one failure notification fan-out
\* carrying the error text, starts no download or upload, arms no timer, and
\* does nothing afterwards.
C12_CheckErrorIsFailed ==
    /\ [](\A i \in 1..Len(polls) :
            polls[i].lastResp = "error" =>
                /\ polls[i].last = "Failed"
                /\ polls[i].pc = "done"
                /\ polls[i].notes = <<"failedReason">>
                /\ polls[i].downloads = 0
                /\ polls[i].uploads = 0
                /\ polls[i].timers = 0)
    /\ [][\A i \in 1..Len(polls) :
            polls[i].lastResp = "error" => polls'[i] = polls[i]]_vars

\* C12, reached: a loop that saw the task in progress and whose next status
\* request failed has stopped.
C12_Witness ==
    \E i \in 1..Len(polls) :
        /\ polls[i].lastResp = "error"
        /\ polls[i].pending >= 1
        /\ polls[i].pc = "done"

\* C12 as stated: a 2xx answer with a malformed body is also turned into a
\* Failed result with a failure notification carrying an error text.
C12_MalformedIsFailed ==
    \A i \in 1..Len(polls) :
        polls[i].lastResp \in {"error", "malformed"} =>
            /\ polls[i].last = "Failed"
            /\ polls[i].notes = <<"failedReason">>

\* C13: after a status check that returned Failed the loop has made one failure
\* notification fan-out, with the provider's reason when there is one and the
\* fixed unknown-error text otherwise, and then stops: no download, no upload,
\* no timer, no further status check.
C13_FailedNotifiesReason ==
    /\ [](\A i \in 1..Len(polls) :
            (polls[i].lastResp = "ok" /\ polls[i].last = "Failed") =>
                /\ polls[i].pc = "done"
                /\ polls[i].notes =
                      <<IF polls[i].lastReason THEN "failedReason" ELSE "failedUnknown">>
                /\ polls[i].downloads = 0
                /\ polls[i].uploads = 0
                /\ polls[i].timers = 0
                /\ polls[i].checks = polls[i].pending + 1)
    /\ [][\A i \in 1..Len(polls) :
            (polls[i].lastResp = "ok" /\ polls[i].last = "Failed") =>
                polls'[i] = polls[i]]_vars

\* C13, reached: Failed without a reason, after the task was seen in progress.
C13_Witness ==
    \E i \in 1..Len(polls) :
        /\ polls[i].lastResp = "ok" /\ polls[i].last = "Failed"
        /\ ~polls[i].lastReason
        /\ polls[i].pending >= 1
        /\ polls[i].notes = <<"failedUnknown">>

RecognizedStatuses == {"Succeed", "Failed", "InQueue", "InProgress"}

\* C14: after a status check that returned a status other than Succeed,
\* Failed, InQueue or InProgress the loop has made exactly one diagnostic
\* notification fan-out and is over: no timer is armed and no further status
\* check is made.
C14_UnknownStatusIsTerminal ==
    /\ [](\A i \in 1..Len(polls) :
            (polls[i].last # "none" /\ polls[i].last \notin RecognizedStatuses) =>
                /\ polls[i].pc = "done"
                /\ polls[i].notes = <<"unknownStatus">>
                /\ polls[i].timers = 0
                /\ polls[i].downloads = 0
                /\ polls[i].checks = polls[i].pending + 1)
    /\ [][\A i \in 1..Len(polls) :
            (polls[i].last # "none" /\ polls[i].last \notin RecognizedStatuses) =>
                polls'[i] = polls[i]]_vars

\* C14, reached: the provider answered "Paused" after the task was in progress.
C14_Witness ==
    \E i \in 1..Len(polls) :
        /\ polls[i].last = "Paused"
        /\ polls[i].pending >= 1
        /\ polls[i].pc = "done"

\* C15: in the Succeed path with a media URL the download comes first; the
\* upload is started only after the download and only when the remote store is
\* configured, and is followed by one upload-result notification; the final
\* success notification comes last, after the download (store not configured)
\* or after the upload notification, whether the upload succeeded or failed.
C15_SucceedOrder ==
    /\ [](\A i \in 1..Len(polls) :
            /\ polls[i].uploads <= polls[i].downloads
            /\ polls[i].uploads >= 1 => StoreConfigured
            /\ polls[i].pc = "final" =>
                  polls[i].notes \in {<<"uploadOk">>, <<"uploadFail">>}
            /\ (polls[i].pc = "done" /\ polls[i].uploads = 1) =>
                  polls[i].notes \in {<<"uploadOk", "success">>, <<"uploadFail", "success">>}
            /\ Count(polls[i].notes, {"success"}) >= 1 =>
                  /\ polls[i].downloads = 1
                  /\ polls[i].pc = "done"
                  /\ polls[i].uploads = (IF StoreConfigured THEN 1 ELSE 0)
                  /\ polls[i].notes[Len(polls[i].notes)] = "success"
                  /\ Len(polls[i].notes) = polls[i].uploads + 1)
    /\ [][\A i \in 1..Len(polls) :
            /\ polls'[i].uploads > polls[i].uploads =>
                  polls[i].pc = "downloading" /\ polls[i].notes = <<>>
            /\ Count(polls'[i].notes, UploadNotes) > Count(polls[i].notes, UploadNotes) =>
                  polls[i].pc = "uploading" /\ polls'[i].pc = "final"
            /\ Count(polls'[i].notes, {"success"}) > Count(polls[i].notes, {"success"}) =>
                  \/ polls[i].pc = "downloading" /\ ~StoreConfigured
                  \/ polls[i].pc = "final"
            /\ (polls[i].pc = "final" /\ polls'[i] # polls[i]) =>
                  polls'[i].notes = Append(polls[i].notes, "success")]_vars

\* C15, reached: the upload failed and the success notification followed.
C15_Witness ==
    \E i \in 1..Len(polls) :
        /\ polls[i].last = "Succeed" /\ polls[i].lastUrl
        /\ polls[i].downloads = 1 /\ polls[i].uploads = 1
        /\ polls[i].notes = <<"uploadFail", "success">>
        /\ polls[i].pc = "done"

\* a background image task that has received a batch of items
InItemLoop(t) == t.batch # <<>>

\* the number of items of the batch whose turn of the loop is over
Processed(t) == Len(t.batch) - Len(t.items)

\* an item from which no image can be obtained, whatever the file system does
Unusable(type, item) ==
    IF type = "edit" THEN ~(item.b64 /\ item.decodes)
    ELSE ~(item.b64 /\ item.decodes) /\ ~(~item.b64 /\ item.url = "valid")

\* C16 (as stated): in a background image task every item of the batch gets
\* its turn and exactly one notification, a failure notification when the item
\* cannot be processed; a task that is over has processed every item.
C16_ItemFailureIsolated ==
    \A i \in 1..Len(bgTasks) :
        LET t == bgTasks[i] IN
        InItemLoop(t) =>
            /\ Len(t.notes) = Processed(t)
            /\ \A k \in 1..Processed(t) :
                  Unusable(t.type, t.batch[k]) => t.notes[k] = "itemError"
            /\ t.pc # "items" => t.items = <<>>

\* C16, the failing case: an edit task whose first item carries a b64_json
\* that cannot be decoded is over, with no notification at all and with a
\* usable second item left unprocessed.
C16_EditTaskRejected ==
    \E i \in 1..Len(bgTasks) :
        /\ bgTasks[i].type = "edit"
        /\ bgTasks[i].pc = "rejected"
        /\ bgTasks[i].notes = <<>>
        /\ Len(bgTasks[i].items) = 2
        /\ bgTasks[i].items[2].b64 /\ bgTasks[i].items[2].decodes

ResultNotes == {"resultRemote", "resultLocal"}

C18_ApiFailureEndsTask ==
    /\ [](\A i \in 1..Len(bgTasks) :
            LET t == bgTasks[i] IN
            /\ Count(t.notes, {"apiError"}) >= 1 =>
                  /\ t.notes = <<"apiError">>
                  /\ t.pc = "done"
                  /\ t.batch = <<>> /\ t.items = <<>>
                  /\ t.persisted = 0 /\ t.uploads = 0
            /\ (t.pc \notin {"api", "input"} /\ t.batch = <<>>) =>
                  t.notes \in {<<"apiError">>, <<"inputError">>})
    /\ [][\A i \in 1..Len(bgTasks) :
            /\ (bgTasks[i].pc = "api" /\ bgTasks'[i] # bgTasks[i] /\ bgTasks'[i].batch = <<>>) =>
                  bgTasks'[i].notes = <<"apiError">>
            /\ bgTasks[i].notes = <<"apiError">> => bgTasks'[i] = bgTasks[i]]_vars

\* C18, reached: both kinds of task ended on a failed provider call.
C18_Witness ==
    \E i \in 1..Len(bgTasks) :
        /\ bgTasks[i].type = "edit"
        /\ bgTasks[i].httpSent = {"images/edits"}
        /\ bgTasks[i].notes = <<"apiError">>
        /\ bgTasks[i].pc = "done"

NoTempLeft(temp) == temp \in {"none", "removed"}

\* C19 (as stated): once an edit_image call has returned or thrown, and once a
\* background edit task is over, no temporary copy of the input image that it
\* created is left in the temp directory.
C19_TempInputRemoved ==
    /\ (call.tool = "edit_image" /\ call.pc \in {"returned", "thrown"}) => NoTempLeft(call.temp)
    /\ \A i \in 1..Len(bgTasks) :
          (bgTasks[i].type = "edit" /\ bgTasks[i].pc \notin {"input", "api", "items"}) =>
              NoTempLeft(bgTasks[i].temp)

\* C19, the failing case: a background edit task whose download of the input
\* image failed is over, after its failure notification, and the file that the
\* download had opened is still there.
C19_TempInputLeft ==
    \E i \in 1..Len(bgTasks) :
        /\ bgTasks[i].type = "edit"
        /\ bgTasks[i].pc = "done"
        /\ bgTasks[i].notes = <<"inputError">>
        /\ bgTasks[i].temp = "partial"
        /\ ~bgTasks[i].cleanup

\* a record of a synchronous image call whose file operations succeeded and
\* whose upload to the remote store returned no URL
UploadFailedOnly(rec) ==
    rec.uploadTried /\ ~rec.cloudflareUploadSuccess /\ rec.fileOps = "ok"

\* C20: a failed secondary operation leaves the primary outcome alone.  A poll
\* loop whose upload failed still ends with the success notification; a
\* synchronous generate_image / edit_image item whose upload failed is returned
\* with its local_path and without an error; and no notification failure ever
\* breaks a poll loop or a background image task, nor touches the tool call.
C20_SecondaryFailureIsolated ==
    /\ [](\A i \in 1..Len(polls) :
            /\ polls[i].pc # "crashed"
            /\ (polls[i].pc = "done" /\ Count(polls[i].notes, {"uploadFail"}) >= 1) =>
                  polls[i].notes = <<"uploadFail", "success">>)
    /\ [](\A i \in 1..Len(bgTasks) : bgTasks[i].pc # "crashed")
    /\ []((SyncResults("generate_image") \/ SyncResults("edit_image")) =>
            /\ Len(call.result.records) = Len(call.batch)
            /\ \A k \in 1..Len(call.result.records) :
                  LET rec == call.result.records[k] IN
                  UploadFailedOnly(rec) =>
                      rec.local_path /\ rec.persisted /\ ~rec.error /\ ~rec.cloudflare_url)
    /\ [][/\ \A i \in 1..Len(polls) :
               (polls[i].notes = <<"uploadFail">> /\ polls'[i] # polls[i]) =>
                   (polls'[i].notes = <<"uploadFail", "success">> /\ polls'[i].pc = "done")
           /\ ((Len(polls') = Len(polls) /\ polls' # polls) => call' = call)
           /\ ((Len(bgTasks') = Len(bgTasks) /\ bgTasks' # bgTasks) => call' = call)]_vars

\* C20, reached: a poll loop ended with the success notification after a
\* failed upload, and a synchronous generate_image call returned an item whose
\* upload failed.
C20_Witness ==
    /\ \E i \in 1..Len(polls) :
          polls[i].pc = "done" /\ polls[i].notes = <<"uploadFail", "success">>
    /\ SyncResults("generate_image")
    /\ \E k \in 1..Len(call.result.records) :
          /\ UploadFailedOnly(call.result.records[k])
          /\ call.result.records[k].local_path

\* what a finished loop has notified, by what it observed itself
OwnOutcome(p) ==
    IF p.last = "Failed" THEN {<<"failedReason">>, <<"failedUnknown">>}
    ELSE IF p.last = "Succeed" /\ ~p.lastUrl THEN {<<"noUrl">>}
    ELSE IF p.last \in {"none", "InQueue", "InProgress"} THEN {<<"timeout">>}
    ELSE {<<"unknownStatus">>}

\* C21: poll loops that run interleaved with each other and with synchronous
\* tool calls are independent.  A step changes at most one loop, a step of a
\* tool call changes none, and request id and start time of a loop never
\* change; the checks and the notification of every loop follow from its own
\* observations and its own start time alone.
C21_LoopsIndependent ==
    /\ [](\A i \in 1..Len(polls) :
            /\ polls[i].checks \in {polls[i].pending, polls[i].pending + 1}
            /\ polls[i].pc = "done" => polls[i].notes \in OwnOutcome(polls[i])
            /\ polls[i].pc # "done" => polls[i].notes = <<>>
            /\ polls[i].timerAt >= polls[i].startTime + pollInterval)
    /\ [][/\ Len(polls') = Len(polls)
           /\ \A i \in 1..Len(polls) :
                /\ polls'[i].requestId = polls[i].requestId
                /\ polls'[i].startTime = polls[i].startTime
                /\ polls'[i] # polls[i] =>
                      \A j \in 1..Len(polls) : j # i => polls'[j] = polls[j]
           /\ (call' # call => polls' = polls)]_vars

\* C21, reached: the first loop ran into its timeout while the second, started
\* later and still within its own 24 hours, went on checking and ended on a
\* Failed answer.
C21_Witness ==
    /\ Len(polls) >= 2
    /\ polls[1].pc = "done" /\ polls[1].notes = <<"timeout">>
    /\ polls[2].pc = "done" /\ polls[2].notes = <<"failedReason">>
    /\ polls[2].checks > polls[1].checks
    /\ call.tool = "generate_speech" /\ call.pc = "returned"

\* the codes handleToolCall throws
McpErrorCodes == {"InvalidParams", "InvalidRequest", "InternalError", "MethodNotFound"}

KnownTools == {"generate_image", "edit_image", "generate_video", "generate_speech",
               "transcribe_audio"}

\* the code the outer catch gives a failed provider request
OuterCatchCode(status) == IF status \in 400..499 THEN "InvalidParams" ELSE "InternalError"

\* the code the catch around the video submission gives a failed request
InnerCatchCode(status) ==
    IF status = 400 THEN "InvalidParams"
    ELSE IF status = 401 THEN "InvalidRequest" ELSE "InternalError"

ThrownWith(code) == call'.pc = "thrown" /\ call'.result = McpError(code)

ValidVideoCall ==
    /\ call.tool = "generate_video"
    /\ ChannelConfigured
    /\ call.args.isObject
    /\ Truthy(call.args.prompt) /\ IsString(call.args.prompt)
    /\ Truthy(call.args.image_size) /\ IsString(call.args.image_size)

VideoModel == EffectiveModel(call.args.model, config.siliconflowVideoModel)

StringImage == Truthy(call.args.image) /\ IsString(call.args.image)

RejectedBeforeSubmit(code) ==
    /\ call.pc = "thrown"
    /\ call.result = McpError(code)
    /\ call.httpSent = {}
    /\ call.spawned = 0

\* C23: a generate_video call with a channel configured and a valid prompt
\* and image_size has been rejected with InvalidParams and without any
\* submission request when its effective model is not one of the four
\* supported ones or is an image-to-video model without a string image;
\* with the model and image accepted it has been rejected with InvalidRequest,
\* again without a request, when the SiliconFlow key is missing; no call
\* without the key has sent a request; and the body submitted for a
\* text-to-video model carries that model and no image.
C23_VideoPrechecks ==
    ValidVideoCall =>
        /\ VideoModel \notin {T2V14B, T2V14BTurbo, I2V720P, I2V720PTurbo}
                => RejectedBeforeSubmit("InvalidParams")
        /\ (VideoModel \in {I2V720P, I2V720PTurbo} /\ ~StringImage)
                => RejectedBeforeSubmit("InvalidParams")
        /\ (/\ ~config.siliconflowApiKey
            /\ VideoModel \in {T2V14B, T2V14BTurbo, I2V720P, I2V720PTurbo}
            /\ VideoModel \in {I2V720P, I2V720PTurbo} => StringImage)
                => RejectedBeforeSubmit("InvalidRequest")
        /\ ~config.siliconflowApiKey => call.pc = "thrown" /\ call.httpSent = {}
        /\ (VideoModel \in {T2V14B, T2V14BTurbo} /\ config.siliconflowApiKey)
                => /\ call.httpSent = {"video/submit"}
                   /\ call.body = [model |-> VideoModel, image |-> FALSE]
        /\ (VideoModel \in {I2V720P, I2V720PTurbo} /\ StringImage
                /\ config.siliconflowApiKey)
                => /\ call.httpSent = {"video/submit"}
                   /\ call.body = [model |-> VideoModel, image |-> TRUE]

\* C23, reached: an image-to-video model without an image was rejected while
\* the key and a channel were configured
C23_Witness ==
    /\ ValidVideoCall
    /\ config.siliconflowApiKey
    /\ call.args.model = I2V720P
    /\ call.args.image = "undefined"
    /\ RejectedBeforeSubmit("InvalidParams")

\* C24: the configuration is the one loaded at startup at every moment, its
\* defaultImageConfig being the base defaults with the default image model,
\* and no step of a tool handler, a poll loop, a background image task or a
\* notification changes any of its fields.
C24_ConfigNeverMutated ==
    /\ [](/\ config \in AllConfigs
          /\ config.defaultImageConfig =
                spread(baseDefaultConfig, [model |-> config.defaultImageModel]))
    /\ [][config' = config]_vars

\* C24, reached: a poll loop has finished with its notifications made and a
\* synchronous generate_image call, whose body is built from the defaults,
\* has returned its results
C24_Witness ==
    /\ Len(polls) >= 1 /\ polls[1].pc = "done" /\ polls[1].notes # <<>>
    /\ call.tool = "generate_image"
    /\ ~isSpecialModel(modelToUseForGen(config, call.args))
    /\ call.pc = "returned"
    /\ call.result.status = "results"

\* C25: every poll loop has at most one timer pending, exactly one while it
\* waits for its next tick and none while a tick is executing or after the
\* loop stopped, so a tick and a pending timer never coexist; a timer is
\* added only by a tick whose status check has just returned InQueue or
\* InProgress, and only one; and a status check begins only by consuming the
\* pending timer, one check per tick, so two checks of a task never overlap.
C25_OneTimerOrOneTick ==
    /\ [](\A i \in 1..Len(polls) :
            /\ polls[i].timers \in {0, 1}
            /\ polls[i].timers = 1 <=> polls[i].pc = "timer"
            /\ polls[i].checks \in {polls[i].pending, polls[i].pending + 1})
    /\ [][\A i \in 1..Len(polls) :
            /\ polls'[i].timers > polls[i].timers =>
                  /\ polls[i].pc = "checking"
                  /\ polls'[i].timers = polls[i].timers + 1
                  /\ polls'[i].last \in {"InQueue", "InProgress"}
                  /\ polls'[i].pending = polls[i].pending + 1
                  /\ polls'[i].checks = polls[i].checks
            /\ polls'[i].checks # polls[i].checks =>
                  /\ polls[i].pc = "timer" /\ polls[i].timers = 1
                  /\ polls'[i].pc = "checking" /\ polls'[i].timers = 0
                  /\ polls'[i].checks = polls[i].checks + 1
            /\ polls'[i].pending # polls[i].pending => polls'[i].timers = 1]_vars

\* C25, reached: a loop was re-armed by two ticks that saw the task queued
\* or in progress, the second InProgress, and its third status check is
\* under way
C25_Witness ==
    /\ Len(polls) >= 1
    /\ polls[1].pc = "checking"
    /\ polls[1].timers = 0
    /\ polls[1].checks = 3
    /\ polls[1].pending = 2
    /\ polls[1].last = "InProgress"

Submitted ==
    /\ call.tool = "generate_video"
    /\ call.pc = "returned"
    /\ call.result.status = "submitted"

\* C26: whenever generate_video has returned 'submitted', a notification over
\* at least one channel performs a send: the OneBot sender or the Telegram
\* sender gets as far as its request under the configuration in force.
C26_SubmittedHasDeliveringChannel ==
    Submitted =>
        \/ sendOneBotNotification(config, TRUE).attempts = 1
        \/ sendTelegramNotification(config, TRUE).attempts = 1

\* C26, refuted: generate_video returned 'submitted' with OneBot set up with a
\* message type that is neither 'private' nor 'group' and no Telegram chat;
\* the loop it started can notify nobody
C26_SubmittedToNobody ==
    /\ Submitted
    /\ config.onebotHttpUrl /\ config.onebotTargetId
    /\ config.onebotMessageType = "channel"
    /\ ~isTelegramConfigured(config)
    /\ Len(polls) = 1 /\ polls[1].requestId = call.result.requestId
    /\ notifyBoth(config, "success", TRUE, TRUE).onebot.outcome = "invalidType"
    /\ notifyBoth(config, "success", TRUE, TRUE).telegram.outcome = "skipped"

Acknowledged ==
    /\ call.tool \in {"generate_image", "edit_image"}
    /\ call.pc = "returned"
    /\ call.result.status = "processing_in_background"

\* C27: whenever generate_image or edit_image has returned the
\* 'processing_in_background' acknowledgement, OneBot or Telegram is
\* configured, so a notification of the task is attempted on a channel.
C27_AcknowledgedHasChannel ==
    Acknowledged =>
        /\ ChannelConfigured
        /\ \/ sendOneBotNotification(config, TRUE).attempts = 1
           \/ sendTelegramNotification(config, TRUE).attempts = 1

\* C27, refuted: with no channel configured the call was acknowledged, and the
\* task it started has persisted an item and finished, its result
\* notification attempted on no channel
C27_AcknowledgedToNobody ==
    /\ Acknowledged
    /\ ~ChannelConfigured
    /\ call.spawned \in 1..Len(bgTasks)
    /\ bgTasks[call.spawned].pc = "done"
    /\ bgTasks[call.spawned].persisted >= 1
    /\ sendImageUploadNotification(config, "resultLocal", TRUE, TRUE).onebot.attempts = 0
    /\ sendImageUploadNotification(config, "resultLocal", TRUE, TRUE).telegram.attempts = 0

\* C28: every poll loop eventually stops, given that time passes and that
\* every timer callback, status check, download, upload and notification
\* eventually completes.  No status check begins more than the timeout after
\* the start of its loop; the first tick after that ends the loop with the
\* timeout notification alone; a loop stopped while its task was last seen
\* queued or in progress (or never seen) stopped by the timeout, and every
\* other loop stopped on the check that made its terminal observation.
C28_EveryLoopStops ==
    /\ \A i \in TaskIds :
          [](i <= Len(polls) => <>(i <= Len(polls) /\ polls[i].pc = "done"))
    /\ [](\A i \in 1..Len(polls) :
            polls[i].pc = "done" =>
                IF polls[i].last \in {"none", "InQueue", "InProgress"}
                THEN polls[i].notes = <<"timeout">> /\ polls[i].checks = polls[i].pending
                ELSE polls[i].checks = polls[i].pending + 1)
    /\ [][\A i \in 1..Len(polls) :
            /\ polls'[i].checks > polls[i].checks
                  => now - polls[i].startTime <= maxTimeout
            /\ (polls[i].pc = "timer" /\ polls'[i] # polls[i]
                    /\ now - polls[i].startTime > maxTimeout)
                  => polls'[i].pc = "done" /\ polls'[i].notes = <<"timeout">>
            /\ polls[i].pc = "done" => polls'[i] = polls[i]]_vars

\* C28, reached: a loop whose task was in progress at every check has stopped
\* with the timeout notification
C28_Witness ==
    /\ Len(polls) >= 1
    /\ polls[1].pc = "done"
    /\ polls[1].last = "InProgress"
    /\ polls[1].pending >= 2
    /\ polls[1].notes = <<"timeout">>
    /\ now - polls[1].startTime > maxTimeout

\* the download or the save failed, or the store is configured and the saved
\* file could not be read
ProcessingFails(o) == o = "downloadFail" \/ (o = "readFail" /\ StoreConfigured)

\* C29: when the download, the save or the reading of the saved file fails
\* after Succeed with a URL, that step ends the loop with the
\* processing-failure notification as its only notification, without an
\* upload and without a timer; a loop that sent the processing-failure
\* notification sent nothing else, downloaded once and does nothing more.
C29_ProcessingFailureNotifiedOnce ==
    /\ [](\A i \in 1..Len(polls) :
            /\ polls[i].downloads <= 1
            /\ Count(polls[i].notes, {"processError"}) > 0 =>
                  /\ polls[i].notes = <<"processError">>
                  /\ polls[i].pc = "done"
                  /\ polls[i].last = "Succeed" /\ polls[i].lastUrl
                  /\ polls[i].downloads = 1
                  /\ polls[i].uploads = 0
                  /\ polls[i].timers = 0)
    /\ [][\A i \in 1..Len(polls) :
            /\ polls[i].pc = "downloading" =>
                  \A o \in DownloadOutcomes, obNet \in BOOLEAN, tgNet \in BOOLEAN :
                      (ProcessingFails(o) /\ DownloadDone(i, o, obNet, tgNet)) =>
                          /\ polls'[i].pc = "done"
                          /\ polls'[i].notes = <<"processError">>
                          /\ polls'[i].downloads = polls[i].downloads
                          /\ polls'[i].checks = polls[i].checks
            /\ Count(polls[i].notes, {"processError"}) > 0 => polls'[i] = polls[i]]_vars

\* C29, reached: with the store configured, a loop that saw its task in
\* progress and then Succeed with a URL stopped on the processing failure
C29_Witness ==
    /\ Len(polls) >= 1
    /\ StoreConfigured
    /\ polls[1].last = "Succeed" /\ polls[1].lastUrl
    /\ polls[1].pending >= 1
    /\ polls[1].downloads = 1
    /\ polls[1].pc = "done"
    /\ polls[1].notes = <<"processError">>

\* C30: the list of poll loops changes only by the step in which a
\* generate_video call returns 'submitted', which appends one loop, not yet
\* checked, for the request id it returns; a step that ends a call in an
\* error, which every rejection and every failed or unusable submission is,
\* leaves the loops as they were; a returned call holds a non-empty request
\* id and the loop it started, a failed call started none.
C30_LoopIffSubmitted ==
    /\ [](call.tool = "generate_video" =>
            /\ call.pc \in {"awaitSubmit", "returned", "thrown"}
            /\ call.pc = "returned" =>
                  /\ call.result = Ack("submitted", call.result.requestId)
                  /\ call.result.requestId # ""
                  /\ call.spawned \in 1..Len(polls)
                  /\ polls[call.spawned].requestId = call.result.requestId
            /\ call.pc # "returned" => call.spawned = 0
            /\ (call.pc = "thrown" /\ call.httpSent = {}) => videoPrecheck(config, call.args) # "ok")
    /\ [][polls' # polls =>
            /\ polls' = Append(polls, handleSiliconFlowVideoGeneration(call'.result.requestId, now))
            /\ call.pc = "awaitSubmit"
            /\ call'.pc = "returned"
            /\ call'.spawned = Len(polls')]_vars
    /\ [][(call' # call /\ call'.pc = "returned") => Len(polls') = Len(polls) + 1]_vars
    /\ [][(call' # call /\ call'.pc = "thrown") => polls' = polls]_vars

\* C30, reached: the provider answered the submission without a usable
\* request id; the call failed with InternalError and no loop exists
C30_Witness ==
    /\ call.tool = "generate_video"
    /\ call.httpSent = {"video/submit"}
    /\ call.pc = "thrown"
    /\ call.result = McpError("InternalError")
    /\ call.spawned = 0
    /\ polls = <<>>

-----------------------------------------------------------------------------
(* Specifications *)

InitCommon ==
    /\ now = 0
    /\ call = IdleCall
    /\ polls = <<>>
    /\ bgTasks = <<>>
    /\ lastFanout = NoFanout

\* the background tasks, under the configurations PollConfigs
Init ==
    /\ config \in PollConfigs
    /\ InitCommon

Next ==
    \/ \E a \in PollVideoArgs : GenerateVideo(a)
    \/ \E r \in PollSubmitResponses : SubmitResponse(r)
    \/ \E i \in TaskIds, obNet \in BOOLEAN, tgNet \in BOOLEAN : PollTimerFire(i, obNet, tgNet)
    \/ \E i \in TaskIds, r \in StatusResponses, obNet \in BOOLEAN, tgNet \in BOOLEAN :
          StatusResponse(i, r, obNet, tgNet)
    \/ \E i \in TaskIds, o \in DownloadOutcomes, obNet \in BOOLEAN, tgNet \in BOOLEAN :
          DownloadDone(i, o, obNet, tgNet)
    \/ \E i \in TaskIds, u \in BOOLEAN, obNet \in BOOLEAN, tgNet \in BOOLEAN :
          UploadDone(i, u, obNet, tgNet)
    \/ \E i \in TaskIds, obNet \in BOOLEAN, tgNet \in BOOLEAN : FinalNotify(i, obNet, tgNet)
    \/ Tick
    \/ Sleep

Spec == Init /\ [][Next]_vars

\* the tool router, under every configuration and every argument bag
InitCall ==
    /\ config \in CallConfigs
    /\ InitCommon

NextCall ==
    \/ \E a \in VideoArgs : GenerateVideo(a)
    \/ \E r \in SubmitResponses : SubmitResponse(r)

SpecCall == InitCall /\ [][NextCall]_vars

\* the notification functions, under every configuration
InitNotify ==
    /\ config \in NotifyConfigs
    /\ InitCommon

NextNotify ==
    \/ \E k \in NoteKinds, obNet \in BOOLEAN, tgNet \in BOOLEAN : NotifySequential(k, obNet, tgNet)
    \/ \E k \in {"uploadOk", "uploadFail"}, obNet \in BOOLEAN, tgNet \in BOOLEAN :
          NotifyConcurrent(k, obNet, tgNet)

SpecNotify == InitNotify /\ [][NextNotify]_vars

\* the image tools, synchronous and in the background
InitImage ==
    /\ config \in ImageConfigs
    /\ InitCommon

NextImage ==
    \/ \E a \in ImageArgs : GenerateImage(a)
    \/ \E r \in ImageResponses : SyncGenResponse(r)
    \/ \E io \in IOOutcomes, u \in BOOLEAN : SyncGenItem(io, u)
    \/ \E i \in TaskIds, r \in ImageResponses, obNet \in BOOLEAN, tgNet \in BOOLEAN :
          BgGenResponse(i, r, obNet, tgNet)
    \/ \E i \in TaskIds, io \in IOOutcomes, u \in BOOLEAN, obNet \in BOOLEAN, tgNet \in BOOLEAN :
          BgGenItem(i, io, u, obNet, tgNet)
    \/ \E a \in EditArgs : EditImage(a)
    \/ \E io \in IOOutcomes : SyncEditInput(io)
    \/ \E r \in ImageResponses : SyncEditResponse(r)
    \/ \E io \in IOOutcomes, u \in BOOLEAN : SyncEditItem(io, u)
    \/ \E i \in TaskIds, io \in IOOutcomes, obNet \in BOOLEAN, tgNet \in BOOLEAN :
          BgEditInput(i, io, obNet, tgNet)
    \/ \E i \in TaskIds, r \in ImageResponses, obNet \in BOOLEAN, tgNet \in BOOLEAN :
          BgEditResponse(i, r, obNet, tgNet)
    \/ \E i \in TaskIds, io \in IOOutcomes, u \in BOOLEAN, obNet \in BOOLEAN, tgNet \in BOOLEAN :
          BgEditItem(i, io, u, obNet, tgNet)

SpecImage == InitImage /\ [][NextImage]_vars

\* generate_image alone, by both routes
RouteConfigs ==
    {c \in ImageConfigs : c.telegramBotToken /\ c.cfImgbedApiKey = c.cfImgbedUploadUrl}

RouteArgs ==
    {NullArgs} \cup {a \in ImageArgs : a.isObject /\ a.prompt = "string"}

RouteResponses ==
    {r \in ImageResponses :
        \/ r.kind = "axiosError" /\ r.status = 500
        \/ r.kind = "ok" /\ \A k \in 1..Len(r.data) : r.data[k].url # "invalid" /\ ~r.data[k].b64}

RouteOutcomes == {"ok", "fail"}

InitRoute ==
    /\ config \in RouteConfigs
    /\ InitCommon

NextRoute ==
    \/ \E a \in RouteArgs : GenerateImage(a)
    \/ \E r \in RouteResponses : SyncGenResponse(r)
    \/ \E io \in RouteOutcomes, u \in BOOLEAN : SyncGenItem(io, u)
    \/ \E i \in TaskIds, r \in RouteResponses, tgNet \in BOOLEAN : BgGenResponse(i, r, TRUE, tgNet)
    \/ \E i \in TaskIds, io \in RouteOutcomes, u \in BOOLEAN, tgNet \in BOOLEAN :
          BgGenItem(i, io, u, TRUE, tgNet)

SpecRoute == InitRoute /\ [][NextRoute]_vars

\* every tool of the router, called with well-formed and malformed arguments
ToolConfigs ==
    {c \in CallConfigs :
        /\ ~c.onebotHttpUrl /\ ~c.onebotTargetId /\ c.onebotMessageType = ""
        /\ c.telegramBotToken = c.telegramChatId}

\* the submission is accepted with a usable or an empty request id, or fails
\* with any of the HTTP outcomes
ToolSubmitResponses ==
    {r \in SubmitResponses : r.kind = "ok" => r.requestId.val \in {"req-1", ""}}

InitTools ==
    /\ config \in ToolConfigs
    /\ InitCommon

NextTools ==
    \/ \E a \in ImageArgs : GenerateImage(a)
    \/ \E r \in RouteResponses : SyncGenResponse(r)
    \/ \E io \in RouteOutcomes : SyncGenItem(io, FALSE)
    \/ \E a \in EditArgs : EditImage(a)
    \/ \E io \in IOOutcomes : SyncEditInput(io)
    \/ \E r \in RouteResponses : SyncEditResponse(r)
    \/ \E io \in RouteOutcomes : SyncEditItem(io, FALSE)
    \/ \E a \in VideoArgs : GenerateVideo(a)
    \/ \E r \in ToolSubmitResponses : SubmitResponse(r)
    \/ \E a \in SpeechArgs : GenerateSpeech(a)
    \/ \E r \in SpeechResponses, io \in RouteOutcomes, w \in WebdavOutcomes : SpeechResponse(r, io, w)
    \/ \E a \in TranscribeArgs : TranscribeAudio(a)
    \/ \E io \in RouteOutcomes : TranscribeInput(io)
    \/ \E r \in TranscribeResponses : TranscribeResponse(r)
    \/ UnknownTool

SpecTools == InitTools /\ [][NextTools]_vars

\* poll loops and background image tasks side by side
AsyncConfigs ==
    {c \in PollConfigs : ~c.onebotHttpUrl /\ c.telegramBotToken /\ c.cfImgbedApiKey}

AsyncImageArgs == {a \in ImageArgs : a.isObject /\ a.prompt = "string" /\ a.model = NoModel}

AsyncEditArgs ==
    {a \in EditArgs : a.isObject /\ a.prompt = "string" /\ a.model = NoModel /\ a.image = "url"}

AsyncStatusResponses ==
    {r \in StatusResponses : r.kind = "error" \/ r.status = "InProgress"}

AsyncImageResponses ==
    {r \in ImageResponses :
        \/ r.kind = "axiosError" /\ r.status = 500
        \/ r.kind = "ok" /\ Len(r.data) = 1 /\ \A k \in 1..Len(r.data) : r.data[k].decodes}

InitAsync ==
    /\ config \in AsyncConfigs
    /\ InitCommon

NextAsync ==
    \/ \E a \in PollVideoArgs : GenerateVideo(a)
    \/ \E r \in PollSubmitResponses : SubmitResponse(r)
    \/ \E i \in TaskIds : PollTimerFire(i, TRUE, TRUE)
    \/ \E i \in TaskIds, r \in AsyncStatusResponses, tgNet \in BOOLEAN :
          StatusResponse(i, r, TRUE, tgNet)
    \/ Tick
    \/ \E a \in AsyncImageArgs : GenerateImage(a)
    \/ \E a \in AsyncEditArgs : EditImage(a)
    \/ \E i \in TaskIds, r \in AsyncImageResponses, tgNet \in BOOLEAN :
          BgGenResponse(i, r, TRUE, tgNet)
    \/ \E i \in TaskIds, io \in RouteOutcomes : BgGenItem(i, io, TRUE, TRUE, TRUE)
    \/ \E i \in TaskIds, io \in RouteOutcomes, tgNet \in BOOLEAN : BgEditInput(i, io, TRUE, tgNet)
    \/ \E i \in TaskIds, r \in AsyncImageResponses, tgNet \in BOOLEAN :
          BgEditResponse(i, r, TRUE, tgNet)
    \/ \E i \in TaskIds, io \in RouteOutcomes : BgEditItem(i, io, TRUE, TRUE, TRUE)

SpecAsync == InitAsync /\ [][NextAsync]_vars

\* the background image tasks alone, with and without the remote store, with
\* and without a notification channel
BgConfigs ==
    {c \in ImageConfigs :
        /\ c.cfImgbedApiKey = c.cfImgbedUploadUrl
        /\ isSpecialModel(c.defaultImageModel) /\ isSpecialModel(c.defaultEditImageModel)}

\* generation tasks are observed on items that carry a url, edit tasks on
\* items that carry b64_json (the response_format the edit request asks for);
\* either answer may hold items without a payload
BgGenResponses ==
    {r \in ImageResponses :
        \/ r.kind = "axiosError" /\ r.status = 500
        \/ r.kind = "ok" /\ \A k \in 1..Len(r.data) : r.data[k].url # "invalid" /\ ~r.data[k].b64}

BgEditResponses ==
    {r \in ImageResponses :
        \/ r.kind = "axiosError" /\ r.status = 500
        \/ r.kind = "ok" /\ \A k \in 1..Len(r.data) :
                                r.data[k].url = "none" /\ r.data[k].b64 = r.data[k].decodes}

InitBg ==
    /\ config \in BgConfigs
    /\ InitCommon

NextBg ==
    \/ \E a \in AsyncImageArgs : GenerateImage(a)
    \/ \E a \in AsyncEditArgs : EditImage(a)
    \/ \E i \in TaskIds, r \in BgGenResponses, tgNet \in BOOLEAN :
          BgGenResponse(i, r, TRUE, tgNet)
    \/ \E i \in TaskIds, io \in IOOutcomes, u \in BOOLEAN, tgNet \in BOOLEAN :
          BgGenItem(i, io, u, TRUE, tgNet)
    \/ \E i \in TaskIds, io \in IOOutcomes, tgNet \in BOOLEAN : BgEditInput(i, io, TRUE, tgNet)
    \/ \E i \in TaskIds, r \in BgEditResponses, tgNet \in BOOLEAN :
          BgEditResponse(i, r, TRUE, tgNet)
    \/ \E i \in TaskIds, io \in RouteOutcomes, u \in BOOLEAN, tgNet \in BOOLEAN :
          BgEditItem(i, io, u, TRUE, tgNet)

SpecBg == InitBg /\ [][NextBg]_vars

\* primary operations together with their secondary ones (upload to the
\* remote store, notification delivery), every channel and the store configured
SecondaryConfigs ==
    {c \in AllConfigs :
        /\ c.onebotHttpUrl /\ c.onebotMessageType = "private" /\ c.onebotTargetId
        /\ c.telegramBotToken /\ c.telegramChatId
        /\ c.cfImgbedUploadUrl /\ c.cfImgbedApiKey
        /\ c.siliconflowApiKey
        /\ DefaultModels(c)}

SecondaryImageArgs ==
    {a \in ImageArgs : a.isObject /\ a.prompt = "string" /\ a.model \in {NoModel, DallE2}}

SecondaryEditArgs ==
    {a \in EditArgs : a.isObject /\ a.prompt = "string" /\ a.model = DallE2 /\ a.image = "url"}

SecondaryStatusResponses ==
    {r \in StatusResponses : r.status = "Succeed" /\ r.url}

SecondaryImageResponses ==
    {r \in ImageResponses :
        r.kind = "ok" /\ Len(r.data) = 1 /\ \A k \in 1..Len(r.data) : r.data[k].decodes}

InitSecondary ==
    /\ config \in SecondaryConfigs
    /\ InitCommon

NextSecondary ==
    \/ \E a \in PollVideoArgs : GenerateVideo(a)
    \/ \E r \in PollSubmitResponses : SubmitResponse(r)
    \/ \E i \in TaskIds : PollTimerFire(i, TRUE, TRUE)
    \/ \E i \in TaskIds, r \in SecondaryStatusResponses : StatusResponse(i, r, TRUE, TRUE)
    \/ \E i \in TaskIds : DownloadDone(i, "ok", TRUE, TRUE)
    \/ \E i \in TaskIds, u \in BOOLEAN, obNet \in BOOLEAN, tgNet \in BOOLEAN :
          UploadDone(i, u, obNet, tgNet)
    \/ \E i \in TaskIds, obNet \in BOOLEAN, tgNet \in BOOLEAN : FinalNotify(i, obNet, tgNet)
    \/ Sleep
    \/ \E a \in SecondaryImageArgs : GenerateImage(a)
    \/ \E r \in SecondaryImageResponses : SyncGenResponse(r)
    \/ \E io \in RouteOutcomes, u \in BOOLEAN : SyncGenItem(io, u)
    \/ \E a \in SecondaryEditArgs : EditImage(a)
    \/ SyncEditInput("ok")
    \/ \E r \in SecondaryImageResponses : SyncEditResponse(r)
    \/ \E io \in RouteOutcomes, u \in BOOLEAN : SyncEditItem(io, u)
    \/ \E i \in TaskIds, r \in SecondaryImageResponses : BgGenResponse(i, r, TRUE, TRUE)
    \/ \E i \in TaskIds, io \in RouteOutcomes, u \in BOOLEAN, obNet \in BOOLEAN, tgNet \in BOOLEAN :
          BgGenItem(i, io, u, obNet, tgNet)

SpecSecondary == InitSecondary /\ [][NextSecondary]_vars

\* two poll loops under way, the second started one interval after the first,
\* and synchronous calls of another tool
LoopConfigs ==
    {c \in PollConfigs : c.telegramBotToken /\ ~c.cfImgbedUploadUrl}

LoopStatusResponses ==
    {r \in StatusResponses :
        \/ r.kind = "error"
        \/ r.kind = "ok" /\ r.status \in {"InQueue", "InProgress", "Paused", "Failed"}
        \/ r.kind = "ok" /\ r.status = "Succeed" /\ ~r.url}

LoopSpeechArgs ==
    {a \in SpeechArgs : a.isObject /\ a.input = "string" /\ a.voice = "undefined"
                          /\ a.model = "undefined" /\ a.speed = "undefined"}

InitLoops ==
    /\ config \in LoopConfigs
    /\ now = pollInterval
    /\ call = IdleCall
    /\ polls = <<handleSiliconFlowVideoGeneration("req-1", 0),
                 handleSiliconFlowVideoGeneration("req-2", pollInterval)>>
    /\ bgTasks = <<>>
    /\ lastFanout = NoFanout

NextLoops ==
    \/ \E i \in TaskIds, tgNet \in BOOLEAN : PollTimerFire(i, TRUE, tgNet)
    \/ \E i \in TaskIds, r \in LoopStatusResponses, tgNet \in BOOLEAN :
          StatusResponse(i, r, TRUE, tgNet)
    \/ Tick
    \/ Sleep
    \/ \E a \in LoopSpeechArgs : GenerateSpeech(a)
    \/ \E r \in SpeechResponses : SpeechResponse(r, "ok", "skipped")

SpecLoops == InitLoops /\ [][NextLoops]_vars

\* one poll loop from its start to its end, with time that keeps passing and
\* with every step of the loop eventually taken
InitLive ==
    /\ config \in PollConfigs
    /\ now = 0
    /\ call = IdleCall
    /\ polls = <<handleSiliconFlowVideoGeneration("req-1", 0)>>
    /\ bgTasks = <<>>
    /\ lastFanout = NoFanout

\* a step of loop i: its timer callback, or the completion of what it awaits
LoopStep(i) ==
    \/ \E obNet \in BOOLEAN, tgNet \in BOOLEAN : PollTimerFire(i, obNet, tgNet)
    \/ \E r \in StatusResponses, obNet \in BOOLEAN, tgNet \in BOOLEAN :
          StatusResponse(i, r, obNet, tgNet)
    \/ \E o \in DownloadOutcomes, obNet \in BOOLEAN, tgNet \in BOOLEAN :
          DownloadDone(i, o, obNet, tgNet)
    \/ \E u \in BOOLEAN, obNet \in BOOLEAN, tgNet \in BOOLEAN : UploadDone(i, u, obNet, tgNet)
    \/ \E obNet \in BOOLEAN, tgNet \in BOOLEAN : FinalNotify(i, obNet, tgNet)

TimePasses == Tick \/ Sleep \/ TimerElapses

NextLive ==
    \/ \E i \in TaskIds : LoopStep(i)
    \/ TimePasses

SpecLive ==
    /\ InitLive
    /\ [][NextLive]_vars
    /\ WF_vars(TimePasses)
    /\ \A i \in TaskIds : WF_vars(LoopStep(i))

====
